---- MODULE Spec2Model ----
(***************************************************************************)
(* Model of the http-sig signature engine (draft-cavage-http-signatures-12)*)
(* Strings are sequences of one-character strings, buffers are sequences   *)
(* of bytes 0..255.  Every string operation of the source (split, slice,   *)
(* toLowerCase, trimEnd, base64) is computed character by character.       *)
(***************************************************************************)
EXTENDS Integers, Sequences, FiniteSets, TLC

\* An optional value is <<>> (undefined) or <<v>>
\* F applied to the value of v, v being evaluated once
With(v, F(_)) == CHOOSE r \in {F(x) : x \in {v}} : TRUE

Undefined == <<>>
Some(v) == <<v>>
IsDefined(o) == o # <<>>
Get(o) == o[1]

\* ---------------------------------------------------------------------
\* JavaScript string primitives
\* ---------------------------------------------------------------------

UpperChars == <<"A","B","C","D","E","F","G","H","I","J","K","L","M",
                "N","O","P","Q","R","S","T","U","V","W","X","Y","Z">>
LowerChars == <<"a","b","c","d","e","f","g","h","i","j","k","l","m",
                "n","o","p","q","r","s","t","u","v","w","x","y","z">>
DigitChars == <<"0","1","2","3","4","5","6","7","8","9">>

\* "<vt>" and "<nbsp>" stand for U+000B and U+00A0
\* variant: the space and the tab only
WhiteSpaceBlank == {" ", "\t"}

WhiteSpace == {" ", "\t", "\n", "\r", "\f", "<vt>", "<nbsp>"}

\* the first position from i on at which seq holds x, 0 when there is none
IndexIn(seq, x, i) ==
  LET at == {j \in i..Len(seq) : seq[j] = x} IN
  IF at = {} THEN 0 ELSE CHOOSE j \in at : \A k \in at : j <= k

LowerTable == [c \in {UpperChars[i] : i \in 1..Len(UpperChars)} |-> LowerChars[IndexIn(UpperChars, c, 1)]]

LowerChar(c) == IF c \in DOMAIN LowerTable THEN LowerTable[c] ELSE c

toLowerCase(s) == [i \in 1..Len(s) |-> LowerChar(s[i])]

RECURSIVE trimEnd(_)
trimEnd(s) ==
  IF s = <<>> THEN <<>>
  ELSE IF s[Len(s)] \in WhiteSpace THEN trimEnd(SubSeq(s, 1, Len(s) - 1))
  ELSE s

startsWith(s, p) == Len(s) >= Len(p) /\ SubSeq(s, 1, Len(p)) = p
endsWith(s, p) == Len(s) >= Len(p) /\ SubSeq(s, Len(s) - Len(p) + 1, Len(s)) = p

\* String.prototype.indexOf for a single character, as a 1-based position (0: not found)
indexOf(s, c) == IndexIn(s, c, 1)

\* String.prototype.split(sep) for a one-character separator
split(s, sep) ==
  LET at == {i \in 1..Len(s) : s[i] = sep}
      nth(k) == IF k = 0 THEN 0
                ELSE IF k > Cardinality(at) THEN Len(s) + 1
                ELSE CHOOSE i \in at : Cardinality({j \in at : j < i}) = k - 1
  IN [k \in 1..(Cardinality(at) + 1) |-> SubSeq(s, nth(k - 1) + 1, nth(k) - 1)]

\* Array.prototype.join(sep)
RECURSIVE join(_, _)
join(xs, sep) ==
  IF xs = <<>> THEN <<>>
  ELSE IF Len(xs) = 1 THEN xs[1]
  ELSE xs[1] \o sep \o join(Tail(xs), sep)

includes(xs, x) == \E i \in 1..Len(xs) : xs[i] = x

\* ---------------------------------------------------------------------
\* Buffers and base64 (Buffer.from(s, 'base64') / buf.toString('base64'))
\* ---------------------------------------------------------------------

B64Chars == UpperChars \o LowerChars \o DigitChars \o <<"+", "/">>

\* value of a character in the base64 alphabet, -1 when it has none;
\* node also accepts the url-safe '-' and '_'
B64Table == [c \in {B64Chars[i] : i \in 1..Len(B64Chars)} |-> IndexIn(B64Chars, c, 1) - 1]

unbase64(c) ==
  IF c = "-" THEN 62
  ELSE IF c = "_" THEN 63
  ELSE IF c \in DOMAIN B64Table THEN B64Table[c] ELSE -1

\* the bytes a run of sextets holds: every four sextets give three bytes,
\* a last group of two gives one byte, of three gives two, a lone sextet none
packSextets(cs) ==
  [k \in 1..((Len(cs) * 6) \div 8) |->
     LET g == 4 * ((k - 1) \div 3) IN
     IF (k - 1) % 3 = 0 THEN cs[g + 1] * 4 + (cs[g + 2] \div 16)
     ELSE IF (k - 1) % 3 = 1 THEN (cs[g + 2] % 16) * 16 + (cs[g + 3] \div 4)
     ELSE (cs[g + 3] % 4) * 64 + cs[g + 4]]

\* the sextets of a base64 text: characters outside the alphabet are
\* skipped and decoding ends at the first padding character
sextetsOf(s) ==
  LET pad == IndexIn(s, "=", 1)
      body == IF pad = 0 THEN s ELSE SubSeq(s, 1, pad - 1)
      known == SelectSeq(body, LAMBDA c : unbase64(c) >= 0)
  IN [i \in 1..Len(known) |-> unbase64(known[i])]

base64Decode(s) == With(sextetsOf(s), LAMBDA cs : packSextets(cs))

\* the byte at position i of b, 0 past its end
byteAt(b, i) == IF i <= Len(b) THEN b[i] ELSE 0

base64Encode(b) ==
  [k \in 1..(4 * ((Len(b) + 2) \div 3)) |->
     LET g == 3 * ((k - 1) \div 4) IN
     IF (k - 1) % 4 = 0 THEN B64Chars[(b[g + 1] \div 4) + 1]
     ELSE IF (k - 1) % 4 = 1 THEN B64Chars[(b[g + 1] % 4) * 16 + (byteAt(b, g + 2) \div 16) + 1]
     ELSE IF (k - 1) % 4 = 2
       THEN IF g + 2 > Len(b) THEN "="
            ELSE B64Chars[(b[g + 2] % 16) * 4 + (byteAt(b, g + 3) \div 64) + 1]
     ELSE IF g + 3 > Len(b) THEN "=" ELSE B64Chars[(b[g + 3] % 64) + 1]]

\* ---------------------------------------------------------------------
\* Errors and results
\* ---------------------------------------------------------------------

Ok(v) == [kind |-> "ok", value |-> v, message |-> "", detail |-> <<>>]
\* detail carries what the message interpolates (a header name, a list of names)
VerificationErrorWith(m, d) == [kind |-> "VerificationError", value |-> <<>>, message |-> m, detail |-> d]
VerificationError(m) == VerificationErrorWith(m, <<>>)
ConfigurationError(m) == [kind |-> "ConfigurationError", value |-> <<>>, message |-> m, detail |-> <<>>]
IsOk(r) == r.kind = "ok"

\* ---------------------------------------------------------------------
\* Enumerations (types.ts): the members are their wire strings
\* ---------------------------------------------------------------------

HS2019 == <<"h","s","2","0","1","9">>
RSA_SHA256 == <<"r","s","a","-","s","h","a","2","5","6">>
HMAC_SHA256 == <<"h","m","a","c","-","s","h","a","2","5","6">>
ECDSA_SHA256 == <<"e","c","d","s","a","-","s","h","a","2","5","6">>
SignatureAlgorithm == {HS2019, RSA_SHA256, HMAC_SHA256, ECDSA_SHA256}

HMAC_SHA512 == <<"h","m","a","c","-","s","h","a","5","1","2">>
HmacAlgorithm == {HMAC_SHA256, HMAC_SHA512}

\* ---------------------------------------------------------------------
\* HMAC (crypto.createHmac): a keyed function of the payload with a
\* fixed-width output.  The payload's characters are packed six bits
\* apiece behind one sextet for the secret, so that within the width
\* distinct (secret, payload) pairs have distinct MACs (the collision
\* resistance HMAC is relied on for); longer payloads fold onto the width.
\* ---------------------------------------------------------------------

Secrets == {"k1", "k2"}
SecretCode(k) == IF k = "k1" THEN 1 ELSE 2

CodeChars == LowerChars \o DigitChars \o
  <<"(", ")", "-", ":", " ", ",", "\n", "/", "=", "\"", "\t", "+", ".", "<vt>", "<nbsp>", "\f", "\r">>

CodeTable == [c \in {CodeChars[i] : i \in 1..Len(CodeChars)} |-> IndexIn(CodeChars, c, 1)]

\* characters outside the table share the last code
CharCode(c) == IF c \in DOMAIN CodeTable THEN CodeTable[c] ELSE 63

MacBytes256 == 32
MacBytes512 == 64
MacLength(algorithm) == IF algorithm = HMAC_SHA256 THEN MacBytes256 ELSE MacBytes512

RECURSIVE foldAt(_, _, _)
foldAt(cs, j, cap) ==
  IF j > Len(cs) THEN 0 ELSE (cs[j] + 7 * foldAt(cs, j + cap, cap)) % 64

hmacDigest(secret, algorithm, buf) ==
  LET width == MacLength(algorithm)
      cap == (8 * width) \div 6
  IN
  With(<<SecretCode(secret)>> \o [i \in 1..Len(buf) |-> CharCode(buf[i])], LAMBDA cs :
    With([j \in 1..(4 * ((cap + 3) \div 4)) |-> IF j <= cap THEN foldAt(cs, j, cap) ELSE 0],
         LAMBDA padded : SubSeq(packSextets(padded), 1, width)))

\* variant: buffers of different length compare unequal
timingSafeEqualNoThrow(a, b) == Ok(a = b)

\* crypto.timingSafeEqual: RangeError on buffers of different length
timingSafeEqual(a, b) ==
  IF Len(a) # Len(b) THEN [kind |-> "RangeError", value |-> <<>>, message |-> "Input buffers must have the same byte length", detail |-> <<>>]
  ELSE Ok(a = b)

\* ---------------------------------------------------------------------
\* Signature.ts: the parser of the Signature parameter list
\* ---------------------------------------------------------------------

EXPIRES_SLACK == 60000
CREATED_SLACK == 60000

MSG_MALFORMED == "malformed signature string"

Quote == "\""

parseStringField(value) ==
  IF ~startsWith(value, <<Quote>>) \/ ~endsWith(value, <<Quote>>)
    THEN VerificationError(MSG_MALFORMED)
  ELSE Ok(SubSeq(value, 2, Len(value) - 1))

Digits == {DigitChars[i] : i \in 1..Len(DigitChars)}
IsDigit(c) == c \in Digits

RECURSIVE parseInt(_)
parseInt(digits) ==
  IF digits = <<>> THEN 0
  ELSE 10 * parseInt(SubSeq(digits, 1, Len(digits) - 1))
       + (IndexIn(DigitChars, digits[Len(digits)], 1) - 1)

\* The time value of a Date is a number of milliseconds of at most 8.64e15
\* in magnitude; new Date(ms) beyond it is an invalid date, whose valueOf()
\* is NaN.  Numbers of seconds above the limit stand as OutOfRange, and so
\* does the time value of the date made from them.
MAX_DATE_SECONDS == <<"8", "6", "4", "0", "0", "0", "0", "0", "0", "0", "0", "0", "0">>
OutOfRange == -1

digitValue(c) == IndexIn(DigitChars, c, 1) - 1

\* digits, without leading zero, denote a number above MAX_DATE_SECONDS
beyondDate(digits) ==
  \/ Len(digits) > Len(MAX_DATE_SECONDS)
  \/ /\ Len(digits) = Len(MAX_DATE_SECONDS)
     /\ \E i \in 1..Len(digits) :
          /\ digitValue(digits[i]) > digitValue(MAX_DATE_SECONDS[i])
          /\ \A j \in 1..(i - 1) : digits[j] = MAX_DATE_SECONDS[j]

numberOf(digits) == IF beyondDate(digits) THEN OutOfRange ELSE parseInt(digits)

\* new Date(Math.floor(seconds * 1000)).valueOf()
dateOfSeconds(seconds) == IF seconds = OutOfRange THEN OutOfRange ELSE seconds * 1000

parseIntFieldLenient(value) ==
  IF \E i \in 1..Len(value) : ~IsDigit(value[i]) THEN VerificationError(MSG_MALFORMED)
  ELSE Ok(numberOf(value))

parseIntField(value) ==
  IF \E i \in 1..Len(value) : ~IsDigit(value[i]) THEN VerificationError(MSG_MALFORMED)
  ELSE IF startsWith(value, <<"0">>) /\ value # <<"0">> THEN VerificationError(MSG_MALFORMED)
  ELSE Ok(numberOf(value))

lastIndexOf(s, c) ==
  IF \E i \in 1..Len(s) : s[i] = c
    THEN CHOOSE i \in 1..Len(s) : s[i] = c /\ \A j \in (i + 1)..Len(s) : s[j] # c
  ELSE 0

\* the value of parseFloat(value) * 1000 rounded down, for an accepted value
decimalMillis(value) ==
  LET dot == indexOf(value, ".")
      whole == IF dot = 0 THEN value ELSE SubSeq(value, 1, dot - 1)
      frac == IF dot = 0 THEN <<>> ELSE SubSeq(value, dot + 1, Len(value))
      frac3 == [i \in 1..3 |-> IF i <= Len(frac) THEN frac[i] ELSE "0"]
  IN IF beyondDate(whole) THEN OutOfRange ELSE parseInt(whole) * 1000 + parseInt(frac3)

parseDecimalFieldManyDots(value) ==
  LET firstDecimalIdx == indexOf(value, ".")
      lastDecimalIdx == lastIndexOf(value, ".")
  IN
  IF \E i \in 1..Len(value) : ~IsDigit(value[i]) /\ value[i] # "." THEN VerificationError(MSG_MALFORMED)
  ELSE IF firstDecimalIdx = 1 \/ lastDecimalIdx = Len(value) THEN VerificationError(MSG_MALFORMED)
  ELSE IF startsWith(value, <<"0">>) /\ Len(value) > 1 /\ firstDecimalIdx # 2
    THEN VerificationError(MSG_MALFORMED)
  ELSE Ok(decimalMillis(value))

parseDecimalField(value) ==
  LET firstDecimalIdx == indexOf(value, ".")
      lastDecimalIdx == lastIndexOf(value, ".")
  IN
  IF \E i \in 1..Len(value) : ~IsDigit(value[i]) /\ value[i] # "." THEN VerificationError(MSG_MALFORMED)
  ELSE IF firstDecimalIdx = 1 \/ lastDecimalIdx = Len(value) THEN VerificationError(MSG_MALFORMED)
  ELSE IF startsWith(value, <<"0">>) /\ Len(value) > 1 /\ firstDecimalIdx # 2
    THEN VerificationError(MSG_MALFORMED)
  ELSE IF firstDecimalIdx # lastDecimalIdx THEN VerificationError(MSG_MALFORMED)
  ELSE Ok(decimalMillis(value))

\* a field map is the sequence of its <<key, value>> entries in insertion order
mapHas(m, k) == \E i \in 1..Len(m) : m[i][1] = k
mapGetCaseless(m, k) ==
  IF \E i \in 1..Len(m) : toLowerCase(m[i][1]) = toLowerCase(k)
    THEN Some(m[CHOOSE i \in 1..Len(m) : toLowerCase(m[i][1]) = toLowerCase(k)][2])
  ELSE Undefined

mapGet(m, k) ==
  IF mapHas(m, k) THEN Some(m[CHOOSE i \in 1..Len(m) : m[i][1] = k][2]) ELSE Undefined

RECURSIVE pairsToMapFrom(_, _)
pairsToMapFrom(pairs, out) ==
  IF pairs = <<>> THEN Ok(out)
  ELSE
    LET pair == pairs[1]
        eqLocation == indexOf(pair, "=")
        key == SubSeq(pair, 1, eqLocation - 1)
        value == SubSeq(pair, eqLocation + 1, Len(pair))
    IN
    IF eqLocation = 0 THEN VerificationError("malformed signature string (missing = in field)")
    ELSE IF key = <<>> \/ value = <<>> \/ (\E i \in 1..Len(key) : key[i] \in WhiteSpace)
      THEN VerificationError(MSG_MALFORMED)
    ELSE IF mapHas(out, key) THEN VerificationError("duplicated field present in signature")
    ELSE pairsToMapFrom(Tail(pairs), Append(out, <<key, value>>))

pairsToMap(pairs) == pairsToMapFrom(pairs, <<>>)

F_keyId == <<"k","e","y","I","d">>
F_algorithm == <<"a","l","g","o","r","i","t","h","m">>
F_headers == <<"h","e","a","d","e","r","s">>
F_signature == <<"s","i","g","n","a","t","u","r","e">>
F_created == <<"c","r","e","a","t","e","d">>
F_expires == <<"e","x","p","i","r","e","s">>

getKeyId(fieldMap) ==
  LET keyId == mapGet(fieldMap, F_keyId) IN
  IF keyId = Undefined THEN VerificationError("required field keyId not present in signature")
  ELSE parseStringField(Get(keyId))

\* variant: the algorithm is not looked up in the enum
getSignatureAlgorithmUnchecked(fieldMap) ==
  LET algorithmVal == mapGet(fieldMap, F_algorithm) IN
  IF algorithmVal = Undefined THEN Ok(Undefined)
  ELSE
    LET algorithm == parseStringField(Get(algorithmVal)) IN
    IF ~IsOk(algorithm) THEN algorithm ELSE Ok(Some(algorithm.value))

getSignatureAlgorithm(fieldMap) ==
  LET algorithmVal == mapGet(fieldMap, F_algorithm) IN
  IF algorithmVal = Undefined THEN Ok(Undefined)
  ELSE
    LET algorithm == parseStringField(Get(algorithmVal)) IN
    IF ~IsOk(algorithm) THEN algorithm
    ELSE IF algorithm.value \notin SignatureAlgorithm
      THEN VerificationError("signature algorithm is not supported")
    ELSE Ok(Some(algorithm.value))

H_created == <<"(","c","r","e","a","t","e","d",")">>
DEFAULT_HEADERS == <<H_created>>

\* variant: the names are kept as written
getHeadersVerbatim(fieldMap) ==
  LET headersStr == mapGet(fieldMap, F_headers) IN
  IF headersStr = Undefined THEN Ok(DEFAULT_HEADERS)
  ELSE
    LET unquoted == parseStringField(Get(headersStr)) IN
    IF ~IsOk(unquoted) THEN unquoted
    ELSE
      LET headers == split(unquoted.value, " ") IN
      IF \E i \in 1..Len(headers) :
           headers[i] = <<>> \/ \E j \in 1..Len(headers[i]) : headers[i][j] \in WhiteSpace
        THEN VerificationError("malformed header list in signature string")
      ELSE Ok(headers)

getHeaders(fieldMap) ==
  LET headersStr == mapGet(fieldMap, F_headers) IN
  IF headersStr = Undefined THEN Ok(DEFAULT_HEADERS)
  ELSE
    LET unquoted == parseStringField(Get(headersStr)) IN
    IF ~IsOk(unquoted) THEN unquoted
    ELSE
      LET parts == split(unquoted.value, " ")
          headers == [i \in 1..Len(parts) |-> toLowerCase(parts[i])]
      IN
      IF \E i \in 1..Len(headers) :
           headers[i] = <<>> \/ \E j \in 1..Len(headers[i]) : headers[i][j] \in WhiteSpace
        THEN VerificationError("malformed header list in signature string")
      ELSE Ok(headers)

removeChar(s, c) == SelectSeq(s, LAMBDA x : x # c)

getSignatureField(fieldMap) ==
  LET signatureStrVal == mapGet(fieldMap, F_signature) IN
  IF signatureStrVal = Undefined
    THEN VerificationError("required field signature not present in signature")
  ELSE
    With(parseStringField(Get(signatureStrVal)), LAMBDA signatureStr :
    IF ~IsOk(signatureStr) THEN signatureStr
    ELSE
      With(base64Decode(signatureStr.value), LAMBDA signature :
      LET unpaddedSignatureString == removeChar(signatureStr.value, "=") IN
      IF (Len(unpaddedSignatureString) * 3) \div 4 # Len(signature) \/ Len(signature) = 0
        THEN VerificationError("invalid base64 string provided in signature")
      ELSE Ok(signature)))

getCreated(fieldMap) ==
  LET createdStr == mapGet(fieldMap, F_created) IN
  IF createdStr = Undefined THEN Ok(Undefined)
  ELSE
    LET createdNum == parseIntField(Get(createdStr)) IN
    IF ~IsOk(createdNum) THEN createdNum ELSE Ok(Some(dateOfSeconds(createdNum.value)))

getExpires(fieldMap) ==
  LET expiresStr == mapGet(fieldMap, F_expires) IN
  IF expiresStr = Undefined THEN Ok(Undefined)
  ELSE
    LET expiresNum == parseDecimalField(Get(expiresStr)) IN
    IF ~IsOk(expiresNum) THEN expiresNum ELSE Ok(Some(expiresNum.value))

\* Signature.fromHeader: the first failing step raises, else the record
fromHeader(header, atTime) ==
  With(split(header, ","), LAMBDA pairs :
  With(pairsToMap(pairs), LAMBDA fieldMap :
  IF ~IsOk(fieldMap) THEN fieldMap
  ELSE
    With(getKeyId(fieldMap.value), LAMBDA keyId :
    IF ~IsOk(keyId) THEN keyId
    ELSE With(getSignatureField(fieldMap.value), LAMBDA signature :
    IF ~IsOk(signature) THEN signature
    ELSE With(getHeaders(fieldMap.value), LAMBDA headers :
    IF ~IsOk(headers) THEN headers
    ELSE With(getSignatureAlgorithm(fieldMap.value), LAMBDA signatureAlgorithm :
    IF ~IsOk(signatureAlgorithm) THEN signatureAlgorithm
    ELSE With(getCreated(fieldMap.value), LAMBDA created :
    IF ~IsOk(created) THEN created
    ELSE With(getExpires(fieldMap.value), LAMBDA updated :
    IF ~IsOk(updated) THEN updated
    ELSE Ok([keyId |-> keyId.value,
             signature |-> signature.value,
             headers |-> headers.value,
             signatureAlgorithm |-> signatureAlgorithm.value,
             created |-> created.value,
             expires |-> updated.value,
             observedAt |-> atTime])))))))))

\* a comparison with NaN is false
validCreation(sig) ==
  IF sig.created = Undefined THEN TRUE
  ELSE IF Get(sig.created) = OutOfRange THEN FALSE
  ELSE Get(sig.created) - sig.observedAt < CREATED_SLACK

validExpires(sig) ==
  IF sig.expires = Undefined THEN TRUE
  ELSE IF Get(sig.expires) = OutOfRange THEN FALSE
  ELSE sig.observedAt - Get(sig.expires) < EXPIRES_SLACK

\* ---------------------------------------------------------------------
\* MessageContext.ts
\* A message is the adapter's view of one HTTP message: headers maps each
\* present (lower-case) name to its non-empty list of values, requestTarget
\* is a record or Undefined (a response).  A context pairs it with the
\* pseudo-header options.
\* ---------------------------------------------------------------------

H_request_target == <<"(","r","e","q","u","e","s","t","-","t","a","r","g","e","t",")">>
H_expires == <<"(","e","x","p","i","r","e","s",")">>
H_signature == F_signature
H_authorization == <<"a","u","t","h","o","r","i","z","a","t","i","o","n">>
H_digest == <<"d","i","g","e","s","t">>
H_host == <<"h","o","s","t">>

messageGetHeader(message, name) ==
  IF name \in DOMAIN message.headers THEN Some(message.headers[name]) ELSE Undefined

getRequestTarget(ctx) ==
  IF ctx.message.requestTarget = Undefined
    THEN ConfigurationError("BUG: attempted to sign/verify (request-target) for response")
  ELSE Ok(toLowerCase(Get(ctx.message.requestTarget).method) \o <<" ">>
          \o Get(ctx.message.requestTarget).path)

\* a falsy option (absent or the empty string) gives no value
getHeader(ctx, name) ==
  LET normalizedName == toLowerCase(name) IN
  IF normalizedName = H_request_target
    THEN LET target == getRequestTarget(ctx) IN
         IF IsOk(target) THEN Ok(Some(<<target.value>>)) ELSE target
  ELSE IF normalizedName = H_created
    THEN Ok(IF IsDefined(ctx.options.createdAt) /\ Get(ctx.options.createdAt) # <<>>
              THEN Some(<<Get(ctx.options.createdAt)>>) ELSE Undefined)
  ELSE IF normalizedName = H_expires
    THEN Ok(IF IsDefined(ctx.options.expiresAt) /\ Get(ctx.options.expiresAt) # <<>>
              THEN Some(<<Get(ctx.options.expiresAt)>>) ELSE Undefined)
  ELSE Ok(messageGetHeader(ctx.message, normalizedName))

\* variant: the line is not right-trimmed
canonicalLineUntrimmed(ctx, h) ==
  LET lowerName == toLowerCase(h)
      headerValues == getHeader(ctx, lowerName)
  IN
  IF ~IsOk(headerValues) THEN headerValues
  ELSE IF headerValues.value = Undefined
    THEN VerificationErrorWith("attempted to sign/verify missing header", h)
  ELSE Ok(lowerName \o <<":", " ">> \o join(Get(headerValues.value), <<",", " ">>))

canonicalLine(ctx, h) ==
  LET lowerName == toLowerCase(h)
      headerValues == getHeader(ctx, lowerName)
  IN
  IF ~IsOk(headerValues) THEN headerValues
  ELSE IF headerValues.value = Undefined
    THEN VerificationErrorWith("attempted to sign/verify missing header", h)
  ELSE Ok(trimEnd(lowerName \o <<":", " ">> \o join(Get(headerValues.value), <<",", " ">>)))

\* headers.map(...) stops at the first entry that throws
RECURSIVE canonicalLines(_, _)
canonicalLines(ctx, headers) ==
  IF headers = <<>> THEN Ok(<<>>)
  ELSE
    LET line == canonicalLine(ctx, headers[1]) IN
    IF ~IsOk(line) THEN line
    ELSE
      LET rest == canonicalLines(ctx, Tail(headers)) IN
      IF ~IsOk(rest) THEN rest ELSE Ok(<<line.value>> \o rest.value)

canonicalString(ctx, headers) ==
  With(canonicalLines(ctx, headers), LAMBDA mergedHeaders :
    IF ~IsOk(mergedHeaders) THEN mergedHeaders
    ELSE Ok(join(mergedHeaders.value, <<"\n">>)))

AuthScheme == <<"S","i","g","n","a","t","u","r","e"," ">>

\* variant: every authorization value is a candidate, whatever its scheme
authSignaturesUnfiltered(values) ==
  [i \in 1..Len(values) |-> SubSeq(values[i], indexOf(values[i], " ") + 1, Len(values[i]))]

RECURSIVE authSignatures(_)
authSignatures(values) ==
  IF values = <<>> THEN <<>>
  ELSE IF startsWith(values[1], AuthScheme)
    THEN <<SubSeq(values[1], indexOf(values[1], " ") + 1, Len(values[1]))>> \o authSignatures(Tail(values))
  ELSE authSignatures(Tail(values))

\* MessageContext.getSignature: Ok(Undefined), Ok(record) or the error raised
getSignature(ctx, atTime) ==
  LET signatureHeaders == getHeader(ctx, H_signature).value
      authHeaders == getHeader(ctx, H_authorization).value
      signatureAuthHeaders ==
        IF authHeaders = Undefined THEN Undefined ELSE Some(authSignatures(Get(authHeaders)))
      signatures == (IF signatureHeaders = Undefined THEN <<>> ELSE Get(signatureHeaders))
                    \o (IF signatureAuthHeaders = Undefined THEN <<>> ELSE Get(signatureAuthHeaders))
  IN
  IF Len(signatures) < 1 THEN Ok(Undefined)
  ELSE IF Len(signatures) > 1 THEN VerificationError("multiple signatures present on message")
  ELSE With(fromHeader(signatures[1], atTime), LAMBDA parsed :
         IF IsOk(parsed) THEN Ok(Some(parsed.value)) ELSE parsed)

\* ---------------------------------------------------------------------
\* SignatureKey.ts / HmacSignatureKey.ts
\* A key handle: id, signatureAlgorithm (the scheme), algorithm (the MAC),
\* secret, options = [requestHeaders, responseHeaders, calculateDigest].
\* A header spec is the sequence of the object's <<name, mode>> entries,
\* mode being "sign", "verify" or Both (true).
\* ---------------------------------------------------------------------

\* the mode written true in an option record
Both == "true"

RECURSIVE headerList(_, _)
headerList(headers, mode) ==
  IF headers = <<>> THEN <<>>
  ELSE IF headers[1][2] = mode \/ headers[1][2] = Both
    THEN <<headers[1][1]>> \o headerList(Tail(headers), mode)
  ELSE headerList(Tail(headers), mode)

hmacSign(key, buf) == hmacDigest(key.secret, key.algorithm, buf)

\* variant: any MAC of the right length is accepted
hmacVerifyLengthOnly(key, buf, mac) ==
  IF Len(hmacSign(key, buf)) # Len(mac) THEN VerificationError("signature length mismatch")
  ELSE Ok(TRUE)

hmacVerify(key, buf, mac) ==
  With(hmacSign(key, buf), LAMBDA actualMac :
    With(timingSafeEqual(actualMac, mac), LAMBDA equal :
      IF equal.kind = "RangeError" THEN VerificationError("signature length mismatch")
      ELSE equal))

\* enum DigestAlgorithm, and the hash each names
SHA256 == <<"S", "H", "A", "-", "2", "5", "6">>
SHA512 == <<"S", "H", "A", "-", "5", "1", "2">>
DigestAlgorithm == {SHA256, SHA512}
DigestLength(algorithm) == IF algorithm = SHA256 THEN MacBytes256 ELSE MacBytes512

\* #digestBuffer: the hash of a body, a packing of the body's bytes (below
\* 64) into the width of the hash that keeps different bodies apart
digestBuffer(algorithm, buf) ==
  LET width == DigestLength(algorithm)
      cap == (8 * width) \div 6
  IN
  With(<<3>> \o [i \in 1..Len(buf) |-> buf[i] % 64], LAMBDA cs :
    With([j \in 1..(4 * ((cap + 3) \div 4)) |-> IF j <= cap THEN foldAt(cs, j, cap) ELSE 0],
         LAMBDA padded : SubSeq(packSextets(padded), 1, width)))

createDigestHeader(key, body) ==
  key.digestAlgorithm \o <<"=">> \o base64Encode(digestBuffer(key.digestAlgorithm, body))

TypeError(m) == [kind |-> "TypeError", value |-> <<>>, message |-> m, detail |-> <<>>]

\* variant: a length mismatch of the comparator is turned into the
\* verification error
verifyDigestHeaderGuarded(key, body, digest) ==
  With(split(digest, "="), LAMBDA pieces :
    LET cmpAlg == pieces[1] IN
    IF toLowerCase(cmpAlg) # toLowerCase(key.digestAlgorithm)
      THEN VerificationError("mismatched digest algorithm")
    ELSE IF Len(pieces) < 2
      THEN TypeError("The first argument must be of type string")
    ELSE
      With(timingSafeEqual(base64Decode(pieces[2]), digestBuffer(key.digestAlgorithm, body)), LAMBDA equal :
        IF equal.kind = "RangeError" THEN VerificationError("body digest verification failed")
        ELSE IF ~equal.value THEN VerificationError("body digest verification failed")
        ELSE Ok(TRUE)))

\* digest.split('=', 2) keeps the first two pieces; Buffer.from(undefined)
\* throws a TypeError and timingSafeEqual a RangeError, neither is caught
verifyDigestHeader(key, body, digest) ==
  With(split(digest, "="), LAMBDA pieces :
    LET cmpAlg == pieces[1] IN
    IF toLowerCase(cmpAlg) # toLowerCase(key.digestAlgorithm)
      THEN VerificationError("mismatched digest algorithm")
    ELSE IF Len(pieces) < 2
      THEN TypeError("The first argument must be of type string")
    ELSE
      With(timingSafeEqual(base64Decode(pieces[2]), digestBuffer(key.digestAlgorithm, body)), LAMBDA equal :
        IF ~IsOk(equal) THEN equal
        ELSE IF ~equal.value THEN VerificationError("body digest verification failed")
        ELSE Ok(TRUE)))

\* the string #signMessage returns for the four values, signature in base64
wireFormat(keyId, algorithm, headers, signature) ==
  F_keyId \o <<"=", Quote>> \o keyId \o <<Quote, ",">>
    \o F_algorithm \o <<"=", Quote>> \o algorithm \o <<Quote, ",">>
    \o F_headers \o <<"=", Quote>> \o join(headers, <<" ">>) \o <<Quote, ",">>
    \o F_signature \o <<"=", Quote>> \o signature \o <<Quote>>

\* the header list #signMessage signs: the sign entries, digest pushed when asked for
signedHeaders(key, headerSpec) ==
  LET headers == headerList(headerSpec, "sign") IN
  IF key.options.calculateDigest /\ ~includes(headers, H_digest) THEN Append(headers, H_digest) ELSE headers

\* variant: the headers parameter lists the signed names in reverse order
signMessageReversed(key, msgCtx, headerSpec) ==
  With(signedHeaders(key, headerSpec), LAMBDA headers :
    With(canonicalString(msgCtx, headers), LAMBDA payload :
      IF ~IsOk(payload) THEN payload
      ELSE
        LET declared == [i \in 1..Len(headers) |-> headers[Len(headers) + 1 - i]]
            signature == With(hmacSign(key, payload.value), LAMBDA mac : base64Encode(mac))
        IN
        Ok(F_keyId \o <<"=", Quote>> \o key.id \o <<Quote, ",">>
           \o F_algorithm \o <<"=", Quote>> \o key.signatureAlgorithm \o <<Quote, ",">>
           \o F_headers \o <<"=", Quote>> \o join(declared, <<" ">>) \o <<Quote, ",">>
           \o F_signature \o <<"=", Quote>> \o signature \o <<Quote>>)))

signMessage(key, msgCtx, headerSpec) ==
  With(signedHeaders(key, headerSpec), LAMBDA headers :
    With(canonicalString(msgCtx, headers), LAMBDA payload :
      IF ~IsOk(payload) THEN payload
      ELSE
        LET algorithm == key.signatureAlgorithm
            signature == With(hmacSign(key, payload.value), LAMBDA mac : base64Encode(mac))
        IN
        Ok(F_keyId \o <<"=", Quote>> \o key.id \o <<Quote, ",">>
           \o F_algorithm \o <<"=", Quote>> \o algorithm \o <<Quote, ",">>
           \o F_headers \o <<"=", Quote>> \o join(headers, <<" ">>) \o <<Quote, ",">>
           \o F_signature \o <<"=", Quote>> \o signature \o <<Quote>>)))

\* variant: only the first required name is looked for
missingFromFirst(required, present) ==
  IF required = <<>> \/ includes(present, required[1]) THEN <<>> ELSE <<required[1]>>

RECURSIVE missingFrom(_, _)
missingFrom(required, present) ==
  IF required = <<>> THEN <<>>
  ELSE IF includes(present, required[1]) THEN missingFrom(Tail(required), present)
  ELSE <<required[1]>> \o missingFrom(Tail(required), present)

\* variant: no scheme test
algorithmMismatchNever(key, sig) == FALSE

\* the scheme test of #verifyMessage: a declared algorithm that is not the key's
algorithmMismatch(key, sig) ==
  sig.signatureAlgorithm # Undefined /\ key.signatureAlgorithm # Get(sig.signatureAlgorithm)

\* the locally required names the signature does not declare
missingHeaders(headerSpec, sig) == missingFrom(headerList(headerSpec, "verify"), sig.headers)

\* variant: the required headers are looked for before the MAC is compared
verifyMessageHeadersFirst(key, msgCtx, headerSpec, atTime) ==
  With(getSignature(msgCtx, atTime), LAMBDA refSig :
  IF ~IsOk(refSig) THEN [result |-> refSig, steps |-> <<"getSignature">>]
  ELSE IF refSig.value = Undefined
    THEN [result |-> VerificationError("signature not present on message"), steps |-> <<"getSignature">>]
  ELSE
    LET sig == Get(refSig.value)
        headers == sig.headers
    IN
    IF algorithmMismatch(key, sig)
      THEN [result |-> VerificationError("incorrect signature scheme used for key"),
            steps |-> <<"getSignature", "algorithm">>]
    ELSE
      With(canonicalString(msgCtx, headers), LAMBDA payload :
      IF ~IsOk(payload)
        THEN [result |-> payload, steps |-> <<"getSignature", "algorithm", "canonicalString">>]
      ELSE
        With(hmacVerify(key, payload.value, sig.signature), LAMBDA signatureVerified :
        LET s4 == <<"getSignature", "algorithm", "canonicalString", "verify">>
            missing == missingHeaders(headerSpec, sig)
        IN
        IF Len(missing) > 0
          THEN [result |-> VerificationErrorWith("signature missing required headers", missing),
                steps |-> Append(s4, "requiredHeaders")]
        ELSE IF ~IsOk(signatureVerified) THEN [result |-> signatureVerified, steps |-> s4]
        ELSE IF ~signatureVerified.value
          THEN [result |-> VerificationError("signature verification failure"), steps |-> s4]
        ELSE IF ~validCreation(sig)
          THEN [result |-> VerificationError("signature creation in future"),
                steps |-> s4 \o <<"requiredHeaders", "validCreation">>]
        ELSE IF ~validExpires(sig)
          THEN [result |-> VerificationError("signature has expired"),
                steps |-> s4 \o <<"requiredHeaders", "validCreation", "validExpires">>]
        ELSE [result |-> Ok(TRUE),
              steps |-> s4 \o <<"requiredHeaders", "validCreation", "validExpires">>])))

\* #verifyMessage.  The outcome is [result, steps]: steps lists, in order,
\* the stages the call entered before it returned or threw.
verifyMessage(key, msgCtx, headerSpec, atTime) ==
  With(getSignature(msgCtx, atTime), LAMBDA refSig :
  IF ~IsOk(refSig) THEN [result |-> refSig, steps |-> <<"getSignature">>]
  ELSE IF refSig.value = Undefined
    THEN [result |-> VerificationError("signature not present on message"), steps |-> <<"getSignature">>]
  ELSE
    LET sig == Get(refSig.value)
        headers == sig.headers
    IN
    IF algorithmMismatch(key, sig)
      THEN [result |-> VerificationError("incorrect signature scheme used for key"),
            steps |-> <<"getSignature", "algorithm">>]
    ELSE
      With(canonicalString(msgCtx, headers), LAMBDA payload :
      IF ~IsOk(payload)
        THEN [result |-> payload, steps |-> <<"getSignature", "algorithm", "canonicalString">>]
      ELSE
        With(hmacVerify(key, payload.value, sig.signature), LAMBDA signatureVerified :
        LET s4 == <<"getSignature", "algorithm", "canonicalString", "verify">>
            missing == missingHeaders(headerSpec, sig)
        IN
        IF ~IsOk(signatureVerified) THEN [result |-> signatureVerified, steps |-> s4]
        ELSE IF ~signatureVerified.value
          THEN [result |-> VerificationError("signature verification failure"), steps |-> s4]
        ELSE IF Len(missing) > 0
          THEN [result |-> VerificationErrorWith("signature missing required headers", missing),
                steps |-> Append(s4, "requiredHeaders")]
        ELSE IF ~validCreation(sig)
          THEN [result |-> VerificationError("signature creation in future"),
                steps |-> s4 \o <<"requiredHeaders", "validCreation">>]
        ELSE IF ~validExpires(sig)
          THEN [result |-> VerificationError("signature has expired"),
                steps |-> s4 \o <<"requiredHeaders", "validCreation", "validExpires">>]
        ELSE [result |-> Ok(TRUE),
              steps |-> s4 \o <<"requiredHeaders", "validCreation", "validExpires">>])))

\* ---------------------------------------------------------------------
\* The bounded universe: key handles, messages, header values
\* ---------------------------------------------------------------------

H_x == <<"x">>
H_X == <<"X">>

V_a == <<"a">>
V_b == <<"b">>
V_d == <<"d">>
V_a_sp == <<"a", " ">>
V_a_b == <<"a", ",", " ", "b">>
V_empty == <<>>
V_sp == <<" ">>

DefaultRequestHeaders == <<<<H_request_target, Both>>, <<H_host, Both>>>>
DefaultResponseHeaders == <<>>

Id_t == <<"t">>
Id_comma == <<"t", ",", "u">>

\* the handles a manager can return: the scheme is hs2019 or hmac-sha256,
\* and hmac-sha256 forces the MAC to hmac-sha256
KeyA == [id |-> Id_t, signatureAlgorithm |-> HS2019, algorithm |-> HMAC_SHA512, secret |-> "k1",
         options |-> [requestHeaders |-> DefaultRequestHeaders,
                      responseHeaders |-> DefaultResponseHeaders,
                      calculateDigest |-> TRUE]]
KeyB == [id |-> Id_t, signatureAlgorithm |-> HMAC_SHA256, algorithm |-> HMAC_SHA256, secret |-> "k1",
         options |-> [requestHeaders |-> <<<<H_x, "sign">>, <<H_host, "verify">>>>,
                      responseHeaders |-> <<>>,
                      calculateDigest |-> FALSE]]
KeyC == [id |-> Id_t, signatureAlgorithm |-> HS2019, algorithm |-> HMAC_SHA256, secret |-> "k2",
         options |-> [requestHeaders |-> <<<<H_X, Both>>>>,
                      responseHeaders |-> <<<<H_request_target, Both>>>>,
                      calculateDigest |-> FALSE]]
KeyD == [id |-> Id_t, signatureAlgorithm |-> HS2019, algorithm |-> HMAC_SHA256, secret |-> "k1",
         options |-> [requestHeaders |-> <<<<H_host, Both>>, <<H_digest, "verify">>>>,
                      responseHeaders |-> <<<<H_created, "sign">>, <<H_x, Both>>>>,
                      calculateDigest |-> TRUE]]
KeyE == [id |-> Id_comma, signatureAlgorithm |-> HS2019, algorithm |-> HMAC_SHA256, secret |-> "k1",
         options |-> [requestHeaders |-> <<<<H_x, Both>>>>,
                      responseHeaders |-> <<<<H_x, "sign">>>>,
                      calculateDigest |-> FALSE]]
KeyF == [id |-> Id_t, signatureAlgorithm |-> HS2019, algorithm |-> HMAC_SHA256, secret |-> "k1",
         options |-> [requestHeaders |-> <<<<H_digest, Both>>, <<H_host, "verify">>, <<H_x, "sign">>>>,
                      responseHeaders |-> <<<<H_x, "verify">>, <<H_digest, "sign">>>>,
                      calculateDigest |-> TRUE]]
Keys == {KeyA, KeyB, KeyC, KeyD, KeyE, KeyF}

\* what a peer holding the same keyId may be configured with
PeerSpecX == [headers |-> <<<<H_x, Both>>>>, calculateDigest |-> FALSE]
PeerSpecHost == [headers |-> <<<<H_host, Both>>>>, calculateDigest |-> FALSE]
PeerSpecDigest == [headers |-> <<<<H_host, Both>>, <<H_x, Both>>>>, calculateDigest |-> TRUE]
PeerSpecs == {PeerSpecX, PeerSpecHost, PeerSpecDigest}

\* <<configuration, declared scheme, secret>> of the peers
Peers == (PeerSpecs \X {HS2019, HMAC_SHA256} \X {"k1"}) \cup {<<PeerSpecX, HS2019, "k2">>}

Method_GET == <<"G", "E", "T">>
Path_root == <<"/">>
RequestTargets == {Some([method |-> Method_GET, path |-> Path_root]), Undefined}

XValues == {Undefined, Some(<<V_a>>), Some(<<V_a, V_b>>)}

headersOf(host, digest, x) ==
  LET names == (IF host THEN {H_host} ELSE {}) \cup (IF digest THEN {H_digest} ELSE {})
               \cup (IF x # Undefined THEN {H_x} ELSE {})
  IN [n \in names |-> IF n = H_host THEN <<V_a>> ELSE IF n = H_digest THEN <<V_d>> ELSE Get(x)]

NoOptions == [createdAt |-> Undefined, expiresAt |-> Undefined]
CreatedOptions == [createdAt |-> Some(<<"1">>), expiresAt |-> Undefined]

Messages ==
  { [message |-> [headers |-> headersOf(host, digest, x), requestTarget |-> rt], options |-> NoOptions] :
      host \in BOOLEAN, digest \in BOOLEAN, x \in XValues, rt \in RequestTargets }
  \cup
  { [message |-> [headers |-> headersOf(FALSE, TRUE, Some(<<V_a>>)), requestTarget |-> Undefined],
     options |-> CreatedOptions],
    [message |-> [headers |-> [n \in {H_x, H_authorization} |->
                                 IF n = H_x THEN <<V_a>> ELSE <<AuthScheme \o V_a>>],
                  requestTarget |-> Some([method |-> Method_GET, path |-> Path_root])],
     options |-> NoOptions] }

TamperNames == {H_host, H_x, H_digest}
TamperValues == {<<V_b>>, <<V_a_sp>>, <<V_a_b>>, <<V_a, V_b>>}

\* the wall clock read by getSignature (ms)
Now == 100000

setHeader(ctx, name, values) ==
  [ctx EXCEPT !.message.headers =
     [n \in DOMAIN ctx.message.headers \cup {name} |->
        IF n = name THEN values ELSE ctx.message.headers[n]]]

\* ---------------------------------------------------------------------
\* State
\* ---------------------------------------------------------------------

VARIABLES
  key,     \* the key handle in use
  msg,     \* the message context being signed or verified
  op,      \* the last library call: [name, arg, result, steps]
  origin,  \* who produced the signature the message carries
  base     \* once a header was altered: the message verify had accepted, and the call that did

vars == <<key, msg, op, origin, base>>

NoOp == [name |-> "none", arg |-> <<>>, result |-> Ok(Undefined), steps |-> <<>>]
Call(name, arg, result, steps) == [name |-> name, arg |-> arg, result |-> result, steps |-> steps]

Init ==
  /\ key \in Keys
  /\ msg \in Messages
  /\ op = NoOp
  /\ origin = "none"
  /\ base = Undefined

SignRequest ==
  /\ origin = "none"
  /\ op' = Call("signRequest", <<>>, signMessage(key, msg, key.options.requestHeaders), <<>>)
  /\ UNCHANGED <<key, msg, origin, base>>

SignResponse ==
  /\ origin = "none"
  /\ op' = Call("signResponse", <<>>, signMessage(key, msg, key.options.responseHeaders), <<>>)
  /\ UNCHANGED <<key, msg, origin, base>>

\* the caller writes the string just returned onto the message as its Signature header
AttachSignature ==
  /\ op.name \in {"signRequest", "signResponse"}
  /\ IsOk(op.result)
  /\ origin = "none"
  /\ msg' = setHeader(msg, H_signature, <<op.result.value>>)
  /\ origin' = op.name
  /\ UNCHANGED <<key, op, base>>

\* a peer holding the same key id signs the message under its own configuration
PeerSign(spec, scheme, secret) ==
  /\ origin = "none"
  /\ op.name = "none"
  /\ LET peer == [key EXCEPT !.signatureAlgorithm = scheme, !.secret = secret,
                             !.options = [requestHeaders |-> spec.headers,
                                          responseHeaders |-> spec.headers,
                                          calculateDigest |-> spec.calculateDigest]]
         signed == signMessage(peer, msg, spec.headers)
     IN /\ IsOk(signed)
        /\ msg' = setHeader(msg, H_signature, <<signed.value>>)
  /\ origin' = "peer"
  /\ UNCHANGED <<key, op, base>>

VerifyRequest ==
  /\ LET v == verifyMessage(key, msg, key.options.requestHeaders, Now)
     IN op' = Call("verifyRequest", <<>>, v.result, v.steps)
  /\ UNCHANGED <<key, msg, origin, base>>

VerifyResponse ==
  /\ LET v == verifyMessage(key, msg, key.options.responseHeaders, Now)
     IN op' = Call("verifyResponse", <<>>, v.result, v.steps)
  /\ UNCHANGED <<key, msg, origin, base>>

\* a message that verified is altered in one header before it is verified again
Tamper(name, values) ==
  /\ op.name \in {"verifyRequest", "verifyResponse"}
  /\ IsOk(op.result)
  /\ base = Undefined
  /\ messageGetHeader(msg.message, name) # Some(values)
  /\ msg' = setHeader(msg, name, values)
  /\ base' = Some([ctx |-> msg, by |-> op.name])
  /\ op' = NoOp
  /\ origin' = "altered"
  /\ UNCHANGED key

Next ==
  \/ SignRequest
  \/ SignResponse
  \/ AttachSignature
  \/ \E peer \in Peers : PeerSign(peer[1], peer[2], peer[3])
  \/ VerifyRequest
  \/ VerifyResponse
  \/ \E name \in TamperNames, values \in TamperValues : Tamper(name, values)

Spec == Init /\ [][Next]_vars

\* ---------------------------------------------------------------------
\* Properties of signing and verification (specification Spec)
\* ---------------------------------------------------------------------

IsVerify == op.name \in {"verifyRequest", "verifyResponse"}
Accepted == IsVerify /\ IsOk(op.result)
LocalSpec == IF op.name = "verifyRequest" THEN key.options.requestHeaders ELSE key.options.responseHeaders

\* the message carries a signature this key made for this very message
RoundTripCase ==
  \/ op.name = "verifyRequest" /\ origin = "signRequest"
  \/ op.name = "verifyResponse" /\ origin = "signResponse"

\* the signature the message carries parses; its record
CarriesParsed(ctx) ==
  LET got == getSignature(ctx, Now) IN IsOk(got) /\ IsDefined(got.value)
ParsedOf(ctx) == Get(getSignature(ctx, Now).value)

\* C1 as stated: a message signed by a key and carrying that signature as
\* its Signature header verifies under the same key, whatever the key's
\* option record and keyId.
C1_RoundTripAlways == RoundTripCase => IsOk(op.result)

\* the option records whose signatures the key itself can read back:
\* the signed list is non-empty, its names are non-empty and free of
\* whitespace and commas, signature is not one of them, every name the key
\* requires (verify or both) is, as spelled, in the lower-cased signed list,
\* and the keyId has no comma
ReadsBack(k, headerSpec) ==
  LET signed == signedHeaders(k, headerSpec)
      required == headerList(headerSpec, "verify")
  IN
  /\ signed # <<>>
  /\ \A i \in 1..Len(signed) :
       /\ signed[i] # <<>>
       /\ \A j \in 1..Len(signed[i]) : signed[i][j] \notin WhiteSpace \cup {","}
       /\ toLowerCase(signed[i]) # H_signature
  /\ \A i \in 1..Len(required) : \E j \in 1..Len(signed) : toLowerCase(signed[j]) = required[i]
  /\ \A i \in 1..Len(k.id) : k.id[i] # ","

NoAuthorizationSignature(ctx) ==
  H_authorization \notin DOMAIN ctx.message.headers
  \/ \A i \in 1..Len(ctx.message.headers[H_authorization]) :
       ~startsWith(ctx.message.headers[H_authorization][i], AuthScheme)

\* C1 restricted: the round trip returns true for every key whose option
\* record reads back (ReadsBack) on a message with no Authorization:
\* Signature value.
C1_RoundTrip ==
  (RoundTripCase /\ ReadsBack(key, LocalSpec) /\ NoAuthorizationSignature(msg))
    => (IsOk(op.result) /\ op.result.value = TRUE)

C1_Witness ==
  /\ RoundTripCase
  /\ key.options.calculateDigest
  /\ \E i \in 1..Len(LocalSpec) : LocalSpec[i][2] = "verify"
  /\ IsOk(op.result)

\* C1, a failing run: a key whose option record tags X as both signs a
\* request, covers x, and rejects its own signature as missing X
C1_RejectsOwn ==
  /\ RoundTripCase /\ op.name = "verifyRequest"
  /\ key = KeyC
  /\ includes(ParsedOf(msg).headers, H_x)
  /\ op.result.kind = "VerificationError"
  /\ op.result.message = "signature missing required headers"
  /\ op.result.detail = <<H_X>>

\* C2: a verification whose signature declares an algorithm other than the
\* key's scheme raises the scheme error, having entered neither the
\* canonical string nor the MAC.
C2_AlgorithmAgreement ==
  (IsVerify /\ CarriesParsed(msg)
     /\ IsDefined(ParsedOf(msg).signatureAlgorithm)
     /\ Get(ParsedOf(msg).signatureAlgorithm) # key.signatureAlgorithm)
    => /\ op.result.kind = "VerificationError"
       /\ op.result.message = "incorrect signature scheme used for key"
       /\ ~includes(op.steps, "canonicalString")
       /\ ~includes(op.steps, "verify")

\* a mismatching scheme on a signature whose MAC is the right one
C2_Witness ==
  /\ IsVerify /\ origin = "peer"
  /\ op.result.message = "incorrect signature scheme used for key"
  /\ op.steps = <<"getSignature", "algorithm">>
  /\ hmacVerify(key, canonicalString(msg, ParsedOf(msg).headers).value, ParsedOf(msg).signature) = Ok(TRUE)

\* C3 as stated: with calculateDigest on, verification succeeds only when
\* the signature's header list covers digest.
C3_DigestCovered ==
  (Accepted /\ key.options.calculateDigest) => includes(ParsedOf(msg).headers, H_digest)

\* C3, a failing run: the key with the default options accepts a response
\* whose signature covers x alone
C3_AcceptsUncovered ==
  /\ Accepted /\ op.name = "verifyResponse" /\ origin = "peer"
  /\ key = KeyA
  /\ ParsedOf(msg).headers = <<H_x>>
  /\ op.result.value = TRUE

\* the header in which the message differs from the one verify accepted
AlteredNames ==
  {n \in DOMAIN msg.message.headers :
     messageGetHeader(Get(base).ctx.message, n) # messageGetHeader(msg.message, n)}
TamperCase ==
  /\ IsVerify /\ IsDefined(base) /\ Get(base).by = op.name
  /\ \A n \in AlteredNames : includes(ParsedOf(Get(base).ctx).headers, n)

RequiredSet == {LocalSpec[i][1] : i \in {j \in 1..Len(LocalSpec) : LocalSpec[j][2] \in {"verify", Both}}}
MissingSet == {n \in RequiredSet : ~includes(ParsedOf(msg).headers, n)}

\* C5 as stated: verify returns true only if every required name is
\* declared, and whenever some are missing the error raised names them.
C5_MissingAlwaysNamed ==
  (IsVerify /\ CarriesParsed(msg))
    => /\ IsOk(op.result) => MissingSet = {}
       /\ MissingSet # {} => op.result.message = "signature missing required headers"

\* C5 (amended): verify returns true only if every required name is
\* declared; when some are missing and the MAC has verified, one
\* VerificationError is raised that names each missing header once.
C5_RequiredHeaders ==
  (IsVerify /\ CarriesParsed(msg))
    => /\ IsOk(op.result) => MissingSet = {}
       /\ (MissingSet # {} /\ includes(op.steps, "requiredHeaders"))
            => /\ op.result.kind = "VerificationError"
               /\ op.result.message = "signature missing required headers"
               /\ {op.result.detail[i] : i \in 1..Len(op.result.detail)} = MissingSet
               /\ Len(op.result.detail) = Cardinality(MissingSet)

C5_Witness ==
  /\ IsVerify /\ CarriesParsed(msg)
  /\ op.result.message = "signature missing required headers"
  /\ Cardinality(MissingSet) = 2

\* ---------------------------------------------------------------------
\* The parser alone (specification SpecParse): Signature.fromHeader applied
\* to parameter lists assembled from well-formed and ill-formed parts
\* ---------------------------------------------------------------------

param(name, value) == name \o <<"=">> \o value
quoted(s) == <<Quote>> \o s \o <<Quote>>

B64_Man == <<"T", "W", "F", "u">>
B64_M == <<"T", "Q", "=", "=">>

KeyIdParts == {<<>>, param(F_keyId, quoted(Id_t)), param(F_keyId, Id_t), param(F_keyId, <<Quote>>)}
AlgorithmParts == {<<>>, param(F_algorithm, quoted(HS2019)), param(F_algorithm, quoted(<<"m", "d", "5">>)),
                   param(F_algorithm, HS2019)}
HeadersParts == {<<>>, param(F_headers, quoted(<<"X", " ">> \o H_created)), param(F_headers, quoted(<<>>)),
                 param(F_headers, quoted(<<"a", " ", " ", "b">>)), param(F_headers, quoted(<<"a", "\t", "b">>))}
CreatedParts == {<<>>, param(F_created, <<"0">>), param(F_created, <<"0", "1">>), param(F_created, <<"1", "2">>),
                 param(F_created, quoted(<<"1">>))}
ExpiresParts == {<<>>, param(F_expires, <<"1", ".", "5">>), param(F_expires, <<".", "1">>)}
SignatureParts == {<<>>, param(F_signature, quoted(B64_Man)), param(F_signature, quoted(B64_M)),
                   param(F_signature, quoted(<<"T">>)), param(F_signature, quoted(<<>>)),
                   param(F_signature, B64_Man)}

RECURSIVE dropEmpty(_)
dropEmpty(parts) ==
  IF parts = <<>> THEN <<>>
  ELSE IF parts[1] = <<>> THEN dropEmpty(Tail(parts))
  ELSE <<parts[1]>> \o dropEmpty(Tail(parts))

Assembled ==
  { join(dropEmpty(<<k, a, h, c, e, g>>), <<",">>) :
      k \in KeyIdParts, a \in AlgorithmParts, h \in HeadersParts,
      c \in CreatedParts, e \in ExpiresParts, g \in SignatureParts }

GoodPair == param(F_keyId, quoted(Id_t)) \o <<",">> \o param(F_signature, quoted(B64_Man))

Irregular ==
  { <<",">> \o GoodPair,
    GoodPair \o <<",">>,
    param(F_keyId, quoted(Id_t)) \o <<",", ",">> \o param(F_signature, quoted(B64_Man)),
    param(F_keyId, quoted(Id_t)) \o <<",", " ">> \o param(F_signature, quoted(B64_Man)),
    GoodPair \o <<",">> \o param(F_keyId, quoted(Id_t)),
    GoodPair \o <<",">> \o param(<<"x">>, <<"1">>),
    GoodPair \o <<",">> \o <<"x">>,
    GoodPair \o <<",">> \o <<"=", "1">>,
    GoodPair \o <<",">> \o <<"x", "=">>,
    param(<<"k", "e", "y", "i", "d">>, quoted(Id_t)) \o <<",">> \o param(F_signature, quoted(B64_Man)),
    GoodPair \o <<",">> \o param(<<"x">>, <<"1">>) \o <<",">> \o param(<<"x">>, <<"2">>),
    GoodPair \o <<",">> \o param(F_headers, H_x),
    GoodPair \o <<",">> \o param(F_headers, <<Quote>> \o H_x),
    param(F_keyId, <<Quote>> \o Id_t) \o <<",">> \o param(F_signature, quoted(B64_Man)),
    param(F_keyId, Id_t \o <<Quote>>) \o <<",">> \o param(F_signature, quoted(B64_Man)),
    GoodPair \o <<",", "\t">> \o param(<<"x">>, <<"1">>) }

\* values of created and of expires, each appended to the good pair
Nines == [i \in 1..14 |-> "9"]
CreatedValues ==
  { <<"0">>, <<"5">>, <<"1", "2">>, <<"1", "0", "0">>, <<"0", "1">>, <<"0", "0">>,
    <<"-", "1">>, <<"1", ".", "5">>, <<"a">>, <<"1", "a">>, <<"1", " ">>, quoted(<<"1">>),
    <<>>, <<"2", "0", "0", "0", "0", "0", "0">>, Nines }
ExpiresValues ==
  { <<"0">>, <<"1">>, <<"1", "2">>, <<"1", ".", "5">>, <<"0", ".", "5">>, <<"1", "0", ".", "2", "5">>,
    <<"1", ".", "0">>, <<".", "1">>, <<"1", ".">>, <<"1", ".", "2", ".", "3">>, <<"1", ".", ".", "2">>,
    <<".">>, <<"0", "0">>, <<"0", "1">>, <<"0", "1", ".", "5">>, <<"0", "0", ".", "5">>,
    <<"-", "1">>, <<"a">>, <<"1", "e", "3">>, <<"1", " ">>, quoted(<<"1">>), <<>>,
    Nines, Nines \o <<".", "5">> }
Numeric ==
  { GoodPair \o <<",">> \o param(F_created, c) : c \in CreatedValues }
    \cup { GoodPair \o <<",">> \o param(F_expires, e) : e \in ExpiresValues }
    \cup { param(F_created, <<"5">>) \o <<",">> \o param(F_expires, e) \o <<",">> \o GoodPair :
             e \in {<<"1", ".", "5">>, <<"1", ".">>, <<"7">>} }

\* values of headers, each quoted and appended to the good pair
HeadersValues ==
  { <<"h", "o", "s", "t">>,
    <<"H", "o", "s", "t", " ", "X", "-", "B", " ">> \o H_created,
    H_request_target \o <<" ", "D", "i", "g", "e", "s", "t">>,
    <<"b", " ", "a", " ", "b">>,
    <<" ", "a">>, <<"a", " ">>, <<"a", " ", " ", "b">>, <<" ">>,
    <<"a", "\t", "b">>, <<"a", "<vt>", "b">>, <<"a", "\f", "b">>, <<"a", "<nbsp>", "b">>,
    <<"a", "\n", "b">>, <<"<vt>">>, <<"a", " ", "b", "\f">> }
Listed == { GoodPair \o <<",">> \o param(F_headers, quoted(h)) : h \in HeadersValues }

ParserInputs == Assembled \cup Irregular \cup Numeric \cup Listed

InitParse ==
  /\ key = KeyA
  /\ msg = [message |-> [headers |-> headersOf(FALSE, FALSE, Undefined), requestTarget |-> Undefined],
            options |-> NoOptions]
  /\ op \in {Call("input", s, Ok(Undefined), <<>>) : s \in ParserInputs}
  /\ origin = "none"
  /\ base = Undefined

FromHeader ==
  /\ op.name = "input"
  /\ op' = Call("fromHeader", op.arg, fromHeader(op.arg, Now), <<>>)
  /\ UNCHANGED <<key, msg, origin, base>>

\* the parameters of the input, as split on commas, and their names
PairsOf(input) == split(input, ",")
NameOf(pair) == SubSeq(pair, 1, indexOf(pair, "=") - 1)
ValueOf(pair) == SubSeq(pair, indexOf(pair, "=") + 1, Len(pair))

\* well-formed parameters whose names the parser does not know
UnknownParams ==
  { param(<<"x">>, <<"1">>),
    param(<<"f", "o", "o">>, quoted(<<"b", "a", "r">>)),
    param(<<"k", "e", "y", "i", "d">>, quoted(<<"z">>)),
    param(<<"C", "r", "e", "a", "t", "e", "d">>, <<"a">>),
    param(<<"x", "-", "y">>, <<"=", "=">>) }

\* fromHeader on an accepted input to which one unknown parameter is added,
\* in front or at the end; base keeps the record of the input without it
FromHeaderWithUnknown(extra, front) ==
  /\ op.name = "fromHeader"
  /\ IsOk(op.result)
  /\ \A i \in 1..Len(PairsOf(op.arg)) : NameOf(PairsOf(op.arg)[i]) # NameOf(extra)
  /\ LET header == IF front THEN extra \o <<",">> \o op.arg ELSE op.arg \o <<",">> \o extra IN
     op' = Call("fromHeaderWithUnknown", header, fromHeader(header, Now), <<>>)
  /\ base' = Some(op.result.value)
  /\ UNCHANGED <<key, msg, origin>>

\* the four values of a returned record are written in the format the
\* signer emits and parsed again; base keeps the record
Reformat ==
  /\ op.name = "fromHeader"
  /\ IsOk(op.result)
  /\ IsDefined(op.result.value.signatureAlgorithm)
  /\ LET r == op.result.value
         header == wireFormat(r.keyId, Get(r.signatureAlgorithm), r.headers, base64Encode(r.signature))
     IN op' = Call("reformat", header, fromHeader(header, Now), <<>>)
  /\ base' = Some(op.result.value)
  /\ UNCHANGED <<key, msg, origin>>

NextParse ==
  \/ FromHeader
  \/ Reformat
  \/ \E extra \in UnknownParams, front \in BOOLEAN : FromHeaderWithUnknown(extra, front)

SpecParse == InitParse /\ [][NextParse]_vars

\* ---------------------------------------------------------------------
\* Properties of the parser (checked under SpecParse)
\* ---------------------------------------------------------------------

Parsed == op.name = "fromHeader"
Returned == Parsed /\ op.result.kind = "ok"

\* the parameters of the input that carry the given name, as written
Given(input, name) ==
  LET pairs == split(input, ",") IN
  {i \in 1..Len(pairs) : startsWith(pairs[i], name \o <<"=">>)}

\* the text between the quotes of the (single) parameter with that name
Inner(input, name) ==
  LET pairs == split(input, ",")
      i == CHOOSE j \in Given(input, name) : TRUE
  IN SubSeq(pairs[i], Len(name) + 3, Len(pairs[i]) - 1)

\* the unquoted text of the (single) parameter with that name
Bare(input, name) ==
  LET pairs == split(input, ",")
      i == CHOOSE j \in Given(input, name) : TRUE
  IN SubSeq(pairs[i], Len(name) + 2, Len(pairs[i]))

AllDigits(s) == \A i \in 1..Len(s) : s[i] \in Digits

\* C9: the parser is total: fromHeader either raises a VerificationError or
\* returns a record whose every field is populated from a validated
\* parameter: keyId, non-empty signature bytes, a non-empty headers list,
\* and each of algorithm, created and expires either absent or the parse of
\* a well-formed parameter; no other kind of error is raised.
C9_ParserTotal ==
  Parsed =>
    \/ op.result.kind = "VerificationError"
    \/ /\ op.result.kind = "ok"
       /\ LET r == op.result.value IN
          /\ DOMAIN r = {"keyId", "signature", "headers", "signatureAlgorithm",
                         "created", "expires", "observedAt"}
          /\ Given(op.arg, F_keyId) # {} /\ r.keyId = Inner(op.arg, F_keyId)
          /\ Len(r.signature) > 0
          /\ \A i \in 1..Len(r.signature) : r.signature[i] \in 0..255
          /\ Len(r.headers) > 0
          /\ \/ r.signatureAlgorithm = Undefined
             \/ (IsDefined(r.signatureAlgorithm) /\ Get(r.signatureAlgorithm) \in SignatureAlgorithm)
          /\ \/ r.created = Undefined
             \/ /\ IsDefined(r.created)
                /\ AllDigits(Bare(op.arg, F_created))
                /\ Get(r.created) = dateOfSeconds(numberOf(Bare(op.arg, F_created)))
          /\ \/ r.expires = Undefined
             \/ /\ IsDefined(r.expires)
                /\ Get(r.expires) = decimalMillis(Bare(op.arg, F_expires))
          /\ r.observedAt = Now

\* a record with every optional field parsed
C9_Witness ==
  /\ Returned
  /\ IsDefined(op.result.value.signatureAlgorithm)
  /\ IsDefined(op.result.value.created)
  /\ IsDefined(op.result.value.expires)

\* a rejected input
C9_WitnessRejected ==
  Parsed /\ op.result.kind = "VerificationError" /\ Given(op.arg, F_algorithm) # {}

LowerCased(s) == \A i \in 1..Len(s) : s[i] \notin {UpperChars[j] : j \in 1..Len(UpperChars)}

\* C10: every returned record has the keyId of the keyId parameter, a
\* non-empty decoded signature and at least one header name, each
\* lower-cased, non-empty and free of whitespace; an input without a keyId
\* or a signature parameter is rejected with a VerificationError; without a
\* headers parameter the list is ['(created)'], and algorithm, created and
\* expires are absent unless the input gives them.
C10_RecordInvariants ==
  Parsed =>
    /\ (Given(op.arg, F_keyId) = {} \/ Given(op.arg, F_signature) = {})
         => op.result.kind = "VerificationError"
    /\ Returned =>
         LET r == op.result.value IN
         /\ r.keyId = Inner(op.arg, F_keyId)
         /\ Len(r.signature) > 0
         /\ r.signature = base64Decode(Inner(op.arg, F_signature))
         /\ Len(r.headers) >= 1
         /\ \A i \in 1..Len(r.headers) :
              /\ r.headers[i] # <<>>
              /\ LowerCased(r.headers[i])
              /\ \A j \in 1..Len(r.headers[i]) : r.headers[i][j] \notin WhiteSpace
         /\ Given(op.arg, F_headers) = {} => r.headers = <<H_created>>
         /\ Given(op.arg, F_algorithm) = {} => r.signatureAlgorithm = Undefined
         /\ Given(op.arg, F_created) = {} => r.created = Undefined
         /\ Given(op.arg, F_expires) = {} => r.expires = Undefined

\* only the required parameters: the defaults apply
C10_Witness ==
  /\ Returned
  /\ Given(op.arg, F_headers) = {}
  /\ op.result.value.headers = <<H_created>>
  /\ op.result.value.created = Undefined

\* a headers parameter with an upper-case name is lower-cased
C10_WitnessLowered ==
  /\ Returned
  /\ Given(op.arg, F_headers) # {}
  /\ includes(op.result.value.headers, H_x)

QuotedNames == {F_keyId, F_algorithm, F_headers, F_signature}

\* the structural defects of a parameter list
LeadingComma(input) == input # <<>> /\ input[1] = ","
TrailingComma(input) == input # <<>> /\ input[Len(input)] = ","
DoubleComma(input) == \E i \in 1..(Len(input) - 1) : input[i] = "," /\ input[i + 1] = ","
SpaceAfterComma(input) ==
  \E i \in 1..(Len(input) - 1) : input[i] = "," /\ input[i + 1] \in WhiteSpace
NoEquals(input) == \E i \in 1..Len(PairsOf(input)) : indexOf(PairsOf(input)[i], "=") = 0
NameTwice(input) ==
  LET pairs == PairsOf(input) IN
  \E i, j \in 1..Len(pairs) :
    /\ i < j
    /\ indexOf(pairs[i], "=") > 1 /\ indexOf(pairs[j], "=") > 1
    /\ NameOf(pairs[i]) = NameOf(pairs[j])

\* a value enclosed in double quotes: an opening and a closing one
Enclosed(value) == Len(value) >= 2 /\ value[1] = Quote /\ value[Len(value)] = Quote
\* a value that begins with a double quote and ends with one
QuoteAtEnds(value) == Len(value) >= 1 /\ value[1] = Quote /\ value[Len(value)] = Quote

Unenclosed(input) ==
  LET pairs == PairsOf(input) IN
  \E i \in 1..Len(pairs) :
    /\ indexOf(pairs[i], "=") > 1
    /\ NameOf(pairs[i]) \in QuotedNames
    /\ ~Enclosed(ValueOf(pairs[i]))

NoQuoteAtEnds(input) ==
  LET pairs == PairsOf(input) IN
  \E i \in 1..Len(pairs) :
    /\ indexOf(pairs[i], "=") > 1
    /\ NameOf(pairs[i]) \in QuotedNames
    /\ ~QuoteAtEnds(ValueOf(pairs[i]))

ListDefect(input) ==
  \/ LeadingComma(input) \/ TrailingComma(input) \/ DoubleComma(input)
  \/ SpaceAfterComma(input) \/ NoEquals(input) \/ NameTwice(input)

\* C11 as stated: an input with a leading, trailing or doubled comma,
\* whitespace after a comma, a parameter without '=', a name occurring
\* twice, or a keyId, algorithm, headers or signature value not enclosed in
\* double quotes is rejected with a VerificationError.
C11_Strictness ==
  (Parsed /\ (ListDefect(op.arg) \/ Unenclosed(op.arg)))
    => op.result.kind = "VerificationError"

\* C11, a failing input: the value of keyId is one double quote and the
\* record is returned with an empty keyId
C11_LoneQuoteAccepted ==
  /\ Returned
  /\ op.arg = param(F_keyId, <<Quote>>) \o <<",">> \o param(F_signature, quoted(B64_Man))
  /\ op.result.value.keyId = <<>>

\* C11 for the defects other than the lone quote: a defect of the list, or
\* a keyId, algorithm, headers or signature value that does not both begin
\* and end with a double quote, is rejected with a VerificationError.
C11_StrictnessAtEnds ==
  (Parsed /\ (ListDefect(op.arg) \/ NoQuoteAtEnds(op.arg)))
    => op.result.kind = "VerificationError"

ParsedWithUnknown == op.name = "fromHeaderWithUnknown"

\* C12: an accepted input to which one well-formed parameter with an
\* unknown name, not yet present, is added is accepted too, and the record
\* has the same keyId, signature, headers, algorithm, created and expires.
C12_UnknownIgnored ==
  ParsedWithUnknown =>
    /\ op.result.kind = "ok"
    /\ op.result.value.keyId = Get(base).keyId
    /\ op.result.value.signature = Get(base).signature
    /\ op.result.value.headers = Get(base).headers
    /\ op.result.value.signatureAlgorithm = Get(base).signatureAlgorithm
    /\ op.result.value.created = Get(base).created
    /\ op.result.value.expires = Get(base).expires

\* an input with every known parameter, and keyid put in front of it
C12_Witness ==
  /\ ParsedWithUnknown
  /\ startsWith(op.arg, param(<<"k", "e", "y", "i", "d">>, quoted(<<"z">>)) \o <<",">>)
  /\ op.result.kind = "ok"
  /\ op.result.value.keyId = Id_t
  /\ IsDefined(op.result.value.signatureAlgorithm)
  /\ IsDefined(op.result.value.created)
  /\ IsDefined(op.result.value.expires)

\* decimal digits, at least one, without a leading zero unless the value is 0
WellFormedCreated(value) ==
  /\ Len(value) >= 1
  /\ AllDigits(value)
  /\ (value[1] = "0" => value = <<"0">>)

HasOne(input, name) == Cardinality(Given(input, name)) = 1

\* C13 as stated: a created parameter that is not well formed is rejected
\* with a VerificationError, a well-formed one added to an accepted input
\* is accepted, and the record of an accepted value n holds n * 1000 ms.
C13_Created ==
  /\ (Parsed /\ HasOne(op.arg, F_created) /\ ~WellFormedCreated(Bare(op.arg, F_created)))
       => op.result.kind = "VerificationError"
  /\ (Parsed /\ \E c \in CreatedValues :
        WellFormedCreated(c) /\ op.arg = GoodPair \o <<",">> \o param(F_created, c))
       => Returned
  /\ (Returned /\ HasOne(op.arg, F_created))
       => /\ IsDefined(op.result.value.created)
          /\ Get(op.result.value.created) # OutOfRange
          /\ Get(op.result.value.created) = parseInt(Bare(op.arg, F_created)) * 1000

\* C13, a failing input: fourteen nines are accepted and the record holds
\* an invalid date
C13_InvalidDateStored ==
  /\ Returned
  /\ op.arg = GoodPair \o <<",">> \o param(F_created, Nines)
  /\ op.result.value.created = Some(OutOfRange)

\* C13 within the range of Date: rejection and acceptance as stated, and
\* an accepted n of at most 8 640 000 000 000 is stored as n * 1000 ms.
C13_CreatedInRange ==
  /\ (Parsed /\ HasOne(op.arg, F_created) /\ ~WellFormedCreated(Bare(op.arg, F_created)))
       => op.result.kind = "VerificationError"
  /\ (Parsed /\ \E c \in CreatedValues :
        WellFormedCreated(c) /\ op.arg = GoodPair \o <<",">> \o param(F_created, c))
       => Returned
  /\ (Returned /\ HasOne(op.arg, F_created) /\ ~beyondDate(Bare(op.arg, F_created)))
       => /\ IsDefined(op.result.value.created)
          /\ Get(op.result.value.created) = parseInt(Bare(op.arg, F_created)) * 1000

\* digits and at most one '.', neither first nor last, and no leading zero
\* unless the value is 0 or begins with 0.
WellFormedExpires(value) ==
  /\ Len(value) >= 1
  /\ \A i \in 1..Len(value) : value[i] \in Digits \cup {"."}
  /\ Cardinality({i \in 1..Len(value) : value[i] = "."}) <= 1
  /\ value[1] # "." /\ value[Len(value)] # "."
  /\ (value[1] = "0" => (value = <<"0">> \/ value[2] = "."))

\* C14: an expires parameter is accepted exactly when it is well formed: a
\* value that is not is rejected with a VerificationError, and a
\* well-formed one added to an accepted input is accepted.
C14_Expires ==
  /\ (Parsed /\ HasOne(op.arg, F_expires) /\ ~WellFormedExpires(Bare(op.arg, F_expires)))
       => op.result.kind = "VerificationError"
  /\ (Parsed /\ \E e \in ExpiresValues :
        WellFormedExpires(e) /\ op.arg = GoodPair \o <<",">> \o param(F_expires, e))
       => (Returned /\ IsDefined(op.result.value.expires))

\* a fractional value is accepted
C14_Witness ==
  /\ Returned
  /\ op.arg = GoodPair \o <<",">> \o param(F_expires, <<"1", "0", ".", "2", "5">>)
  /\ op.result.value.expires = Some(10250)

\* a value with two separators is rejected
C14_WitnessRejected ==
  /\ Parsed
  /\ op.arg = GoodPair \o <<",">> \o param(F_expires, <<"1", ".", "2", ".", "3">>)
  /\ op.result.kind = "VerificationError"

\* the listed defects of a header list
BadHeaderList(h) ==
  \/ h # <<>> /\ h[1] = " "
  \/ h # <<>> /\ h[Len(h)] = " "
  \/ \E i \in 1..(Len(h) - 1) : h[i] = " " /\ h[i + 1] = " "
  \/ \E i \in 1..Len(h) : h[i] \in {"\t", "<vt>", "\f", "<nbsp>"}

QuotedHeaders(input) == HasOne(input, F_headers) /\ Enclosed(Bare(input, F_headers))

\* C15: the unquoted headers value is cut at each single space, the names
\* are lower-cased and keep their order (joined again by single spaces they
\* give the lower-cased value, and no name holds a space); a value with a
\* leading, trailing or doubled space, or a tab, vertical tab, form feed or
\* non-breaking space, is rejected with a VerificationError.
C15_HeaderList ==
  /\ (Parsed /\ QuotedHeaders(op.arg) /\ BadHeaderList(Inner(op.arg, F_headers)))
       => op.result.kind = "VerificationError"
  /\ (Returned /\ QuotedHeaders(op.arg))
       => /\ join(op.result.value.headers, <<" ">>) = toLowerCase(Inner(op.arg, F_headers))
          /\ \A i \in 1..Len(op.result.value.headers) :
               \A j \in 1..Len(op.result.value.headers[i]) : op.result.value.headers[i][j] # " "

\* three names, two of them with upper-case letters, in the order given
C15_Witness ==
  /\ Returned
  /\ QuotedHeaders(op.arg)
  /\ Inner(op.arg, F_headers) = <<"H", "o", "s", "t", " ", "X", "-", "B", " ">> \o H_created
  /\ op.result.value.headers = << <<"h", "o", "s", "t">>, <<"x", "-", "b">>, H_created >>

\* a value with a non-breaking space is rejected
C15_WitnessRejected ==
  /\ Parsed
  /\ QuotedHeaders(op.arg)
  /\ Inner(op.arg, F_headers) = <<"a", "<nbsp>", "b">>
  /\ op.result.kind = "VerificationError"

SameFour(a, b) ==
  /\ a.keyId = b.keyId
  /\ a.signatureAlgorithm = b.signatureAlgorithm
  /\ a.headers = b.headers
  /\ a.signature = b.signature

\* C17 for parsed records: the keyId, algorithm, headers and signature of a
\* record, written in the emitted format and parsed again, give a record
\* with the same four values.
C17_ReformatRoundTrip ==
  op.name = "reformat" => (IsOk(op.result) /\ SameFour(op.result.value, Get(base)))

\* a record with two header names and the signature bytes of TWFu round-trips
C17_WitnessReformat ==
  /\ op.name = "reformat"
  /\ IsOk(op.result)
  /\ Len(Get(base).headers) = 2
  /\ Get(base).headers = op.result.value.headers
  /\ Get(base).signature = <<77, 97, 110>>

Emitted == op.name \in {"signRequest", "signResponse"} /\ IsOk(op.result)

\* a string parses to a record whose four values, written in the emitted
\* format, parse to the same record again
RoundTrips(header) ==
  With(fromHeader(header, Now), LAMBDA first :
    /\ IsOk(first)
    /\ IsDefined(first.value.signatureAlgorithm)
    /\ With(fromHeader(wireFormat(first.value.keyId, Get(first.value.signatureAlgorithm),
                                  first.value.headers, base64Encode(first.value.signature)), Now),
            LAMBDA again : IsOk(again) /\ SameFour(again.value, first.value)))

\* C17 as stated (checked under Spec): every string signRequest and
\* signResponse emit parses, and formatting the record and parsing again
\* gives the same keyId, algorithm, header list and signature bytes.
C17_EmittedRoundTrip == Emitted => RoundTrips(op.result.value)

\* C17, a failing run: signResponse of a key whose sign list is empty emits
\* headers="" and the parser rejects the string
C17_EmittedUnparseable ==
  /\ Emitted
  /\ signedHeaders(key, IF op.name = "signRequest" THEN key.options.requestHeaders
                        ELSE key.options.responseHeaders) = <<>>
  /\ fromHeader(op.result.value, Now).kind = "VerificationError"

\* C17 for the strings emitted with a non-empty sign list and a keyId
\* without comma: they parse and round-trip.
C17_EmittedWellFormed ==
  (/\ Emitted
   /\ ~includes(key.id, ",")
   /\ signedHeaders(key, IF op.name = "signRequest" THEN key.options.requestHeaders
                         ELSE key.options.responseHeaders) # <<>>)
    => RoundTrips(op.result.value)

\* the names of the option record tagged sign or true, in the record's
\* order, and digest after them when the key calculates digests and the
\* names do not hold it
SignSpec == IF op.name = "signRequest" THEN key.options.requestHeaders ELSE key.options.responseHeaders
TaggedSign(spec) ==
  LET at == {i \in 1..Len(spec) : spec[i][2] \in {"sign", Both}}
      nth(k) == CHOOSE i \in at : Cardinality({j \in at : j < i}) = k - 1
  IN [k \in 1..Cardinality(at) |-> spec[nth(k)][1]]
ComposedList(k, spec) ==
  IF k.options.calculateDigest /\ (\A i \in 1..Len(TaggedSign(spec)) : TaggedSign(spec)[i] # H_digest)
    THEN TaggedSign(spec) \o <<H_digest>>
  ELSE TaggedSign(spec)

\* C18 (checked under Spec): the string a sign call returns is
\* keyId="<id>",algorithm="<scheme>",headers="<list>",signature="<base64>"
\* with nothing between the parameters but one comma, where <list> is the
\* composed list joined by single spaces and <base64> encodes the key's MAC
\* of the canonical string of that list.
C18_SignComposition ==
  Emitted =>
    With(ComposedList(key, SignSpec), LAMBDA list :
      op.result.value =
        <<"k", "e", "y", "I", "d", "=", Quote>> \o key.id
          \o <<Quote, ",", "a", "l", "g", "o", "r", "i", "t", "h", "m", "=", Quote>> \o key.signatureAlgorithm
          \o <<Quote, ",", "h", "e", "a", "d", "e", "r", "s", "=", Quote>> \o join(list, <<" ">>)
          \o <<Quote, ",", "s", "i", "g", "n", "a", "t", "u", "r", "e", "=", Quote>>
          \o base64Encode(hmacSign(key, canonicalString(msg, list).value)) \o <<Quote>>)

\* digest is appended after two tagged names
C18_Witness ==
  /\ Emitted
  /\ key = KeyA
  /\ op.name = "signRequest"
  /\ ComposedList(key, SignSpec) = <<H_request_target, H_host, H_digest>>

\* digest is tagged in the record and is not appended again
C18_WitnessTagged ==
  /\ Emitted
  /\ key = KeyF
  /\ op.name = "signRequest"
  /\ ComposedList(key, SignSpec) = <<H_digest, H_x>>

\* ---------------------------------------------------------------------
\* The message context alone (specification SpecCanon):
\* canonicalString over header lists and getSignature over messages that
\* carry zero, one or several candidate signatures
\* ---------------------------------------------------------------------

Method_Post == <<"P", "o", "s", "t">>
Path_query == <<"/", "A", "?", "b">>
CanonTargets == {Undefined, Some([method |-> Method_GET, path |-> Path_root]),
                 Some([method |-> Method_Post, path |-> Path_query])}

CanonXValues == {Undefined, Some(<<V_a>>), Some(<<V_a_sp>>), Some(<<V_empty>>), Some(<<V_sp>>),
                 Some(<<V_a, V_b>>), Some(<<V_empty, V_empty>>)}

CanonOptions ==
  { [createdAt |-> c, expiresAt |-> e] :
      c \in {Undefined, Some(<<>>), Some(<<"1">>)}, e \in {Undefined, Some(<<"2">>)} }

CanonContexts ==
  { [message |-> [headers |-> headersOf(host, FALSE, x), requestTarget |-> rt], options |-> o] :
      host \in BOOLEAN, x \in CanonXValues, rt \in CanonTargets, o \in CanonOptions }

HeaderLists ==
  { <<>>, <<H_x>>, <<H_X>>, <<H_host>>, <<H_digest>>, <<H_x, H_host>>, <<H_host, H_x>>, <<H_x, H_x>>,
    <<H_request_target>>, <<H_created>>, <<H_expires>>,
    <<H_request_target, H_x>>, <<H_x, H_request_target>>, <<H_digest, H_request_target>>,
    <<H_request_target, H_created, H_host, H_x>> }

SignatureValues ==
  { Undefined, Some(<<GoodPair>>), Some(<<GoodPair, GoodPair>>), Some(<<param(F_keyId, Id_t)>>) }

Auth_Basic == <<"B", "a", "s", "i", "c", " ", "a">>
Auth_Signature == AuthScheme \o GoodPair
Auth_lower == <<"s">> \o Tail(Auth_Signature)
Auth_bare == <<"S", "i", "g", "n", "a", "t", "u", "r", "e">>
Auth_joined == Auth_bare \o GoodPair

AuthorizationValues ==
  { Undefined, Some(<<Auth_Basic>>), Some(<<Auth_Signature>>), Some(<<Auth_lower>>), Some(<<Auth_bare>>),
    Some(<<Auth_joined>>), Some(<<AuthScheme>>), Some(<<Auth_Basic, Auth_Signature>>),
    Some(<<Auth_Signature, Auth_Signature>>) }

withCandidates(sig, auth) ==
  LET names == (IF sig # Undefined THEN {H_signature} ELSE {})
               \cup (IF auth # Undefined THEN {H_authorization} ELSE {})
  IN [message |-> [headers |-> [n \in names |-> IF n = H_signature THEN Get(sig) ELSE Get(auth)],
                   requestTarget |-> Undefined],
      options |-> NoOptions]

SignatureContexts == { withCandidates(sig, auth) : sig \in SignatureValues, auth \in AuthorizationValues }

InitCanon ==
  /\ key = KeyA
  /\ msg \in CanonContexts \cup SignatureContexts
  /\ op = NoOp
  /\ origin = "none"
  /\ base = Undefined

CanonicalString ==
  /\ op.name = "none"
  /\ \E headers \in HeaderLists :
       op' = Call("canonicalString", headers, canonicalString(msg, headers), <<>>)
  /\ UNCHANGED <<key, msg, origin, base>>

GetSignature ==
  /\ op.name = "none"
  /\ op' = Call("getSignature", <<>>, getSignature(msg, Now), <<>>)
  /\ UNCHANGED <<key, msg, origin, base>>

NextCanon == CanonicalString \/ GetSignature

SpecCanon == InitCanon /\ [][NextCanon]_vars

\* ---------------------------------------------------------------------
\* Properties of the message context (checked under SpecCanon)
\* ---------------------------------------------------------------------

Canonicalised == op.name = "canonicalString"

\* what the message supplies for a lower-cased name: a list of values, or
\* Undefined when it supplies none
Supplied(ctx, name) ==
  IF name = H_request_target
    THEN IF ctx.message.requestTarget = Undefined THEN Undefined
         ELSE Some(<<toLowerCase(Get(ctx.message.requestTarget).method) \o <<" ">>
                      \o Get(ctx.message.requestTarget).path>>)
  ELSE IF name = H_created
    THEN IF ctx.options.createdAt \in {Undefined, Some(<<>>)} THEN Undefined
         ELSE Some(<<Get(ctx.options.createdAt)>>)
  ELSE IF name = H_expires
    THEN IF ctx.options.expiresAt \in {Undefined, Some(<<>>)} THEN Undefined
         ELSE Some(<<Get(ctx.options.expiresAt)>>)
  ELSE IF name \in DOMAIN ctx.message.headers THEN Some(ctx.message.headers[name])
  ELSE Undefined

AllSupplied(ctx, headers) ==
  \A i \in 1..Len(headers) : Supplied(ctx, toLowerCase(headers[i])) # Undefined

Joined(ctx, h) == join(Get(Supplied(ctx, toLowerCase(h))), <<",", " ">>)

\* the line as stated: name, ': ', joined value; 'name:' when that is empty
StatedLine(ctx, h) ==
  IF Joined(ctx, h) = <<>> THEN toLowerCase(h) \o <<":">>
  ELSE toLowerCase(h) \o <<":", " ">> \o Joined(ctx, h)

\* the line with the joined value's trailing whitespace dropped
TrimmedLine(ctx, h) ==
  IF trimEnd(Joined(ctx, h)) = <<>> THEN toLowerCase(h) \o <<":">>
  ELSE toLowerCase(h) \o <<":", " ">> \o trimEnd(Joined(ctx, h))

\* C6 as stated: canonicalString(H) is one line per entry of H, in order,
\* joined by a single newline with no trailing newline, each line being the
\* lower-cased name, ': ' and the values joined with ', ', or 'name:' when
\* the joined value is empty.
C6_CanonicalFormat ==
  (Canonicalised /\ AllSupplied(msg, op.arg)) =>
    /\ IsOk(op.result)
    /\ op.result.value = join([i \in 1..Len(op.arg) |-> StatedLine(msg, op.arg[i])], <<"\n">>)

\* C6: canonicalString(H) is one line per entry of H, in order, joined by a
\* single newline with no trailing newline, each line being the lower-cased
\* name and ':', followed - unless the joined value is empty or all
\* whitespace - by one space and the values joined with ', ' with the
\* trailing whitespace of the joined value removed.
C6_CanonicalFormatTrimmed ==
  (Canonicalised /\ AllSupplied(msg, op.arg)) =>
    /\ IsOk(op.result)
    /\ op.result.value = join([i \in 1..Len(op.arg) |-> TrimmedLine(msg, op.arg[i])], <<"\n">>)
    /\ Len(op.arg) > 0 => op.result.value[Len(op.result.value)] # "\n"

\* four lines, among them a request-target and a timestamp
C6_Witness ==
  /\ Canonicalised /\ AllSupplied(msg, op.arg)
  /\ Len(op.arg) = 4
  /\ IsOk(op.result)

\* a value that ends in whitespace has been canonicalised
C6_WitnessTrailing ==
  /\ Canonicalised /\ IsOk(op.result)
  /\ op.arg = <<H_x, H_host>>
  /\ Supplied(msg, H_x) = Some(<<V_a_sp>>)

\* C7 as stated: when the message supplies no value for some name of the list
\* - an ordinary header or one of (request-target), (created), (expires) -
\* canonicalString fails with the VerificationError
\* 'attempted to sign/verify missing header' and returns no string.
C7_MissingIsVerificationError ==
  (Canonicalised /\ ~AllSupplied(msg, op.arg)) =>
    /\ op.result.kind = "VerificationError"
    /\ op.result.message = "attempted to sign/verify missing header"

\* C7, a failing run: (request-target) asked of a message without a request
\* target ends in a ConfigurationError
C7_RequestTargetOfResponse ==
  /\ Canonicalised
  /\ op.arg = <<H_request_target>>
  /\ msg.message.requestTarget = Undefined
  /\ op.result.kind = "ConfigurationError"

\* C7 for the names other than (request-target): the first name of the list
\* without a value is reported in a VerificationError, provided no
\* (request-target) precedes it on a message without a request target.
C7_MissingOrdinary ==
  Canonicalised =>
    \A i \in 1..Len(op.arg) :
      (/\ Supplied(msg, toLowerCase(op.arg[i])) = Undefined
       /\ \A j \in 1..(i - 1) : Supplied(msg, toLowerCase(op.arg[j])) # Undefined
       /\ toLowerCase(op.arg[i]) # H_request_target)
        => /\ op.result.kind = "VerificationError"
           /\ op.result.message = "attempted to sign/verify missing header"
           /\ op.result.detail = op.arg[i]

C7_Witness ==
  /\ Canonicalised
  /\ op.arg = <<H_created>>
  /\ op.result.kind = "VerificationError"

\* the candidates getSignature collects
RECURSIVE Remainders(_)
Remainders(values) ==
  IF values = <<>> THEN <<>>
  ELSE IF Len(values[1]) >= 10 /\ SubSeq(values[1], 1, 10) = AuthScheme
    THEN <<SubSeq(values[1], 11, Len(values[1]))>> \o Remainders(Tail(values))
  ELSE Remainders(Tail(values))

Candidates(ctx) ==
  (IF H_signature \in DOMAIN ctx.message.headers THEN ctx.message.headers[H_signature] ELSE <<>>)
  \o (IF H_authorization \in DOMAIN ctx.message.headers
        THEN Remainders(ctx.message.headers[H_authorization]) ELSE <<>>)

\* C8: getSignature collects the values of the signature header and the
\* remainders of the authorization values that begin with 'Signature '; it
\* returns none when there is no candidate, raises the VerificationError
\* 'multiple signatures present on message' when there are several, and
\* otherwise returns the parse of the only candidate (or raises its error).
C8_Extraction ==
  op.name = "getSignature" =>
    LET candidates == Candidates(msg) IN
    IF Len(candidates) = 0 THEN op.result = Ok(Undefined)
    ELSE IF Len(candidates) > 1
      THEN /\ op.result.kind = "VerificationError"
           /\ op.result.message = "multiple signatures present on message"
    ELSE LET parsed == fromHeader(candidates[1], Now) IN
         IF IsOk(parsed) THEN op.result = Ok(Some(parsed.value)) ELSE op.result = parsed

\* one candidate, taken from an authorization value next to a Basic one
C8_Witness ==
  /\ op.name = "getSignature"
  /\ IsOk(op.result) /\ IsDefined(op.result.value)
  /\ H_authorization \in DOMAIN msg.message.headers
  /\ Len(msg.message.headers[H_authorization]) = 2

\* one from each header: rejected as multiple
C8_WitnessMultiple ==
  /\ op.name = "getSignature"
  /\ op.result.kind = "VerificationError"
  /\ Candidates(msg) = <<GoodPair, GoodPair>>
  /\ H_authorization \in DOMAIN msg.message.headers
  /\ H_signature \in DOMAIN msg.message.headers

\* ---------------------------------------------------------------------
\* Signatures as they arrive (specification SpecTime): a peer signs and
\* states created and expires, or a signature arrives that nobody holding
\* the secret made, and the key reads the two windows and verifies.
\* ---------------------------------------------------------------------

TimeKeys == {KeyA, KeyB}

TimeMessages ==
  { [message |-> [headers |-> headersOf(host, FALSE, Some(<<V_a>>)), requestTarget |-> rt],
     options |-> NoOptions] :
      host \in BOOLEAN, rt \in RequestTargets }

\* seconds, as written by the peer: with Now at 100 s the creation window
\* closes at 160 s and the expiry window opens after 40 s
StatedCreated ==
  { <<>>, <<"0">>, <<"1", "0", "0">>, <<"1", "5", "9">>, <<"1", "6", "0">>, <<"1", "6", "1">>, Nines }
StatedExpires ==
  { <<>>, <<"3", "9">>, <<"4", "0">>, <<"4", "0", ".", "0", "0", "1">>, <<"4", "1">>,
    <<"2", "0", "0">>, Nines }

stamp(created, expires) ==
  (IF created = <<>> THEN <<>> ELSE <<",">> \o param(F_created, created))
    \o (IF expires = <<>> THEN <<>> ELSE <<",">> \o param(F_expires, expires))

\* signatures over (request-target) with a MAC of the right length that no
\* holder of the secret computed
ForgedSignatures ==
  { param(F_keyId, quoted(Id_t)) \o <<",">> \o param(F_headers, quoted(H_request_target))
      \o <<",">> \o param(F_signature, quoted(base64Encode([i \in 1..MacBytes512 |-> 0])))
      \o stamp(c, <<>>) : c \in {<<"1", "0", "0">>, <<"1", "6", "1">>} }
  \cup
  \* the same, declared as made under another scheme than the key's
  { param(F_keyId, quoted(Id_t)) \o <<",">> \o param(F_algorithm, quoted(RSA_SHA256))
      \o <<",">> \o param(F_headers, quoted(H_request_target))
      \o <<",">> \o param(F_signature, quoted(base64Encode([i \in 1..MacBytes512 |-> 0])))
      \o stamp(<<"1", "6", "1">>, <<"3", "9">>) }

InitTime ==
  /\ key \in TimeKeys
  /\ msg \in TimeMessages
  /\ op = NoOp
  /\ origin = "none"
  /\ base = Undefined

PeerSignTimed(spec, scheme, secret, created, expires) ==
  /\ origin = "none"
  /\ op.name = "none"
  /\ LET peer == [key EXCEPT !.signatureAlgorithm = scheme, !.secret = secret,
                             !.options = [requestHeaders |-> spec.headers,
                                          responseHeaders |-> spec.headers,
                                          calculateDigest |-> spec.calculateDigest]]
         signed == signMessage(peer, msg, spec.headers)
     IN /\ IsOk(signed)
        /\ msg' = setHeader(msg, H_signature, <<signed.value \o stamp(created, expires)>>)
  /\ origin' = "peer"
  /\ UNCHANGED <<key, op, base>>

Receive(signature) ==
  /\ origin = "none"
  /\ op.name = "none"
  /\ msg' = setHeader(msg, H_signature, <<signature>>)
  /\ origin' = "forged"
  /\ UNCHANGED <<key, op, base>>

\* the getters of the record getSignature returns for the message
ValidCreation ==
  /\ origin # "none"
  /\ CarriesParsed(msg)
  /\ op' = Call("validCreation", <<>>, Ok(validCreation(ParsedOf(msg))), <<>>)
  /\ UNCHANGED <<key, msg, origin, base>>

ValidExpires ==
  /\ origin # "none"
  /\ CarriesParsed(msg)
  /\ op' = Call("validExpires", <<>>, Ok(validExpires(ParsedOf(msg))), <<>>)
  /\ UNCHANGED <<key, msg, origin, base>>

NextTime ==
  \/ \E c \in StatedCreated, e \in StatedExpires :
       PeerSignTimed(PeerSpecX, key.signatureAlgorithm, "k1", c, e)
  \/ \E signature \in ForgedSignatures : Receive(signature)
  \/ ValidCreation
  \/ ValidExpires
  \/ VerifyRequest
  \/ VerifyResponse

SpecTime == InitTime /\ [][NextTime]_vars

\* ---------------------------------------------------------------------
\* Properties of the timing windows (checked under SpecTime)
\* ---------------------------------------------------------------------

\* the two windows as stated; a difference with an invalid date is NaN and
\* compares false
CreatedInWindow(sig) ==
  \/ sig.created = Undefined
  \/ Get(sig.created) # OutOfRange /\ Get(sig.created) - sig.observedAt < 60000
ExpiresInWindow(sig) ==
  \/ sig.expires = Undefined
  \/ Get(sig.expires) # OutOfRange /\ sig.observedAt - Get(sig.expires) < 60000

OutsideWindow ==
  /\ origin # "none"
  /\ CarriesParsed(msg)
  /\ ~(CreatedInWindow(ParsedOf(msg)) /\ ExpiresInWindow(ParsedOf(msg)))

\* C16 as stated: validCreation is true iff created is absent or less than
\* 60 000 ms after observedAt, validExpires is true iff expires is absent or
\* less than 60 000 ms before observedAt, and verifying a message whose
\* signature fails either raises a VerificationError.
C16_Windows ==
  /\ op.name = "validCreation" => op.result.value = CreatedInWindow(ParsedOf(msg))
  /\ op.name = "validExpires" => op.result.value = ExpiresInWindow(ParsedOf(msg))
  /\ (IsVerify /\ OutsideWindow) => op.result.kind = "VerificationError"

\* C16, a failing run: a response arrives whose signature is over
\* (request-target) and created in the future, and verifying it ends in a
\* ConfigurationError
C16_ConfigurationErrorOutsideWindow ==
  /\ IsVerify
  /\ OutsideWindow
  /\ msg.message.requestTarget = Undefined
  /\ op.result.kind = "ConfigurationError"

\* C16 for the two getters, and for verification in its weaker form: a
\* message whose signature fails either window is never accepted, and when
\* the MAC and the required headers pass, the error is the VerificationError
\* of the window.
C16_WindowsNeverAccepted ==
  /\ op.name = "validCreation" => op.result.value = CreatedInWindow(ParsedOf(msg))
  /\ op.name = "validExpires" => op.result.value = ExpiresInWindow(ParsedOf(msg))
  /\ (IsVerify /\ OutsideWindow) => ~IsOk(op.result)
  /\ (IsVerify /\ OutsideWindow /\ Len(op.steps) > 5)
       => /\ op.result.kind = "VerificationError"
          /\ op.result.message \in {"signature creation in future", "signature has expired"}

\* created at exactly observedAt + 60 000 ms: the getter is false and the
\* correctly signed message is rejected
C16_WitnessAtSlack ==
  /\ IsVerify
  /\ origin = "peer"
  /\ CarriesParsed(msg)
  /\ ParsedOf(msg).created = Some(Now + CREATED_SLACK)
  /\ op.result.kind = "VerificationError"
  /\ op.result.message = "signature creation in future"

\* expires 59 999 ms before observedAt, created 59 000 ms after: accepted
C16_WitnessInside ==
  /\ IsVerify
  /\ origin = "peer"
  /\ CarriesParsed(msg)
  /\ ParsedOf(msg).created = Some(159000)
  /\ ParsedOf(msg).expires = Some(40001)
  /\ IsOk(op.result)

\* ---------------------------------------------------------------------
\* The Digest header (specification SpecDigest): a key makes the header of
\* a body, or a header arrives, and the key verifies it against the body.
\* msg holds the body and the header.
\* ---------------------------------------------------------------------

DigestKeys == { [id |-> Id_t, digestAlgorithm |-> a] : a \in DigestAlgorithm }

Bodies == { <<>>, <<1>>, <<2>>, <<1, 2>> }

\* headers as they arrive: made by either algorithm for some body, with
\* the algorithm in lower case, cut short, followed by more text, without
\* '=' or without digest
ArrivingDigests ==
  LET made == { createDigestHeader(k, b) : k \in DigestKeys, b \in {<<>>, <<1>>} } IN
  made
    \cup { toLowerCase(SubSeq(h, 1, 7)) \o SubSeq(h, 8, Len(h)) : h \in made }
    \cup { SubSeq(h, 1, 12) : h \in made }
    \cup { h \o <<"x">> : h \in made }
    \cup { SHA256, SHA512, SHA256 \o <<"=">>, <<"M", "D", "5", "=", "T", "W", "F", "u">>, <<>>,
           <<"=", "T", "W", "F", "u">>, <<"S", "H", "A">> }

InitDigest ==
  /\ key \in DigestKeys
  /\ msg \in { [body |-> b, digest |-> Undefined] : b \in Bodies }
  /\ op = NoOp
  /\ origin = "none"
  /\ base = Undefined

CreateDigestHeader ==
  /\ origin = "none"
  /\ op' = Call("createDigestHeader", msg.body, Ok(createDigestHeader(key, msg.body)), <<>>)
  /\ msg' = [msg EXCEPT !.digest = Some(createDigestHeader(key, msg.body))]
  /\ origin' = "own"
  /\ UNCHANGED <<key, base>>

ReceiveDigest(digest) ==
  /\ origin = "none"
  /\ msg' = [msg EXCEPT !.digest = Some(digest)]
  /\ origin' = "peer"
  /\ UNCHANGED <<key, op, base>>

VerifyDigestHeader ==
  /\ IsDefined(msg.digest)
  /\ op.name # "verifyDigestHeader"
  /\ op' = Call("verifyDigestHeader", Get(msg.digest), verifyDigestHeader(key, msg.body, Get(msg.digest)), <<>>)
  /\ UNCHANGED <<key, msg, origin, base>>

NextDigest ==
  \/ CreateDigestHeader
  \/ \E digest \in ArrivingDigests : ReceiveDigest(digest)
  \/ VerifyDigestHeader

SpecDigest == InitDigest /\ [][NextDigest]_vars

\* ---------------------------------------------------------------------
\* Properties of the Digest header (checked under SpecDigest)
\* ---------------------------------------------------------------------

DigestVerified == op.name = "verifyDigestHeader"

\* the text before the first '=' and the text after it
Token(header) == IF indexOf(header, "=") = 0 THEN header ELSE SubSeq(header, 1, indexOf(header, "=") - 1)
Remainder(header) == SubSeq(header, indexOf(header, "=") + 1, Len(header))

Matches(header) ==
  /\ indexOf(header, "=") > 0
  /\ toLowerCase(Token(header)) = toLowerCase(key.digestAlgorithm)
  /\ base64Decode(Remainder(header)) = digestBuffer(key.digestAlgorithm, msg.body)

\* C19 as stated: verifyDigestHeader returns true exactly when the token
\* before the first '=' is the key's digest algorithm, case aside, and the
\* remainder decodes to the hash of the body, as for the header the key
\* makes itself; in every other case it raises a VerificationError.
C19_TwoOutcomes ==
  DigestVerified =>
    /\ Matches(op.arg) => op.result = Ok(TRUE)
    /\ ~Matches(op.arg) => op.result.kind = "VerificationError"
    /\ origin = "own" => op.result = Ok(TRUE)

\* C19, a failing run: the header names the key's algorithm and carries a
\* digest of another length, and the call ends in a RangeError
C19_RangeErrorOnLength ==
  /\ DigestVerified
  /\ toLowerCase(Token(op.arg)) = toLowerCase(key.digestAlgorithm)
  /\ indexOf(op.arg, "=") > 0
  /\ Len(base64Decode(Remainder(op.arg))) # DigestLength(key.digestAlgorithm)
  /\ op.result.kind = "RangeError"

\* C19, a failing run: the header is the algorithm's name without '=' and
\* the call ends in a TypeError
C19_TypeErrorWithoutEquals ==
  /\ DigestVerified
  /\ op.arg = key.digestAlgorithm
  /\ op.result.kind = "TypeError"

\* C19 for digests of the hash's length: true exactly for a match, a
\* VerificationError for another algorithm or another digest of that
\* length, and never false.
C19_SameLength ==
  (/\ DigestVerified
   /\ \/ toLowerCase(Token(op.arg)) # toLowerCase(key.digestAlgorithm)
      \/ /\ indexOf(op.arg, "=") > 0
         /\ Len(base64Decode(Remainder(op.arg))) = DigestLength(key.digestAlgorithm))
    => /\ Matches(op.arg) => op.result = Ok(TRUE)
       /\ ~Matches(op.arg) => op.result.kind = "VerificationError"
       /\ origin = "own" => op.result = Ok(TRUE)

\* ---------------------------------------------------------------------
\* Properties of HmacSignatureKey.verify (checked under SpecTime)
\* ---------------------------------------------------------------------

\* a verify call that got as far as HmacSignatureKey.verify
ReachedVerify == IsVerify /\ Len(op.steps) >= 4
StoppedAtVerify == IsVerify /\ Len(op.steps) = 4
GivenMac == ParsedOf(msg).signature
KeyMac == hmacSign(key, canonicalString(msg, ParsedOf(msg).headers).value)

\* C20: verify returns true iff the given MAC is the key's MAC of the
\* canonical string (only then does verification go on past it); a MAC of
\* another length raises the VerificationError 'signature length mismatch',
\* and another MAC of the same length makes the verify call raise the
\* VerificationError 'signature verification failure'.
C20_HmacVerify ==
  ReachedVerify =>
    With(GivenMac, LAMBDA mac : With(KeyMac, LAMBDA actualMac :
      /\ (Len(op.steps) > 4) <=> (mac = actualMac)
      /\ Len(mac) # Len(actualMac)
           => (op.result.kind = "VerificationError" /\ op.result.message = "signature length mismatch")
      /\ (Len(mac) = Len(actualMac) /\ mac # actualMac)
           => (op.result.kind = "VerificationError" /\ op.result.message = "signature verification failure")))

\* a MAC of 64 bytes is given to a key whose MAC has 32
C20_Witness ==
  /\ StoppedAtVerify
  /\ Len(GivenMac) = MacBytes512
  /\ Len(KeyMac) = MacBytes256
  /\ op.result.message = "signature length mismatch"

\* a MAC of the right length that is not the key's
C20_WitnessSameLength ==
  /\ StoppedAtVerify
  /\ Len(GivenMac) = Len(KeyMac)
  /\ op.result.message = "signature verification failure"

\* the key's own MAC
C20_WitnessTrue ==
  /\ ReachedVerify
  /\ GivenMac = KeyMac
  /\ IsOk(op.result)

\* ---------------------------------------------------------------------
\* SignatureKeyManager (SignatureKeyManager.ts)
\* An object is a function from its property names to their values: a
\* property that is present with the value undefined maps to Undefined,
\* an absent one is not in the domain.
\* ---------------------------------------------------------------------

hasKey(obj, k) == k \in DOMAIN obj

\* obj[k] as the language reads it: undefined for an absent property
member(obj, k) == IF k \in DOMAIN obj THEN obj[k] ELSE Undefined

\* {...a, ...b}
spread(a, b) == [k \in DOMAIN a \cup DOMAIN b |-> IF k \in DOMAIN b THEN b[k] ELSE a[k]]

\* let {k1, k2, ...rest} = obj
rest(obj, ks) == [k \in DOMAIN obj \ ks |-> obj[k]]

\* if (s) for a string or undefined: the empty string is falsy
truthy(s) == IsDefined(s) /\ Len(Get(s)) > 0

firstDefined(vals) ==
  LET defined == SelectSeq(vals, IsDefined)
  IN IF Len(defined) = 0 THEN Undefined ELSE Head(defined)

DRAFT_CAVAGE_12 == "draft-cavage-http-signatures-12"

Error(m) == [kind |-> "Error", value |-> <<>>, message |-> m, detail |-> <<>>]

\* what awaiting the key lookup gives: a key configuration or undefined,
\* or the rejection of the promise with the lookup's error
Resolved(config) == [kind |-> "resolved", config |-> config, error |-> Ok(Undefined)]
Rejected(error) == [kind |-> "rejected", config |-> Undefined, error |-> error]

Id_u == <<"u">>
Id_empty == <<>>
\* the id the express adapter asks for
AdapterKeyId == <<"f", "o", "o">>
KeyIds == {Id_t, Id_u, Id_empty, AdapterKeyId}

fixedKeyLookupAny(fixedKeyId, keyConfig) == [keyId \in KeyIds |-> Resolved(Some(keyConfig))]

fixedKeyLookup(fixedKeyId, keyConfig) ==
  [keyId \in KeyIds |-> IF keyId # fixedKeyId THEN Resolved(Undefined) ELSE Resolved(Some(keyConfig))]

DEFAULT_OPTS ==
  [signatureAlgorithm |-> Some(HS2019),
   requestHeaders |-> Some(DefaultRequestHeaders),
   responseHeaders |-> Some(DefaultResponseHeaders),
   calculateDigest |-> Some(TRUE)]

\* the constructor: { keyLookup, ...baseSigningConfig }
SignatureKeyManager(finalConfig) ==
  [keyLookup |-> Get(finalConfig["keyLookup"]), baseSigningOptions |-> rest(finalConfig, {"keyLookup"})]

getKeySigningOptions(manager, keyId, overrides) ==
  LET entries == manager.baseSigningOptions
      effectiveValue(optionKey) == firstDefined(<<overrides[optionKey], entries[optionKey]>>)
      unset == { optionKey \in DOMAIN entries : hasKey(overrides, optionKey) /\ ~IsDefined(effectiveValue(optionKey)) }
  IN IF unset # {}
       THEN ConfigurationError("key config has unset option")
       ELSE Ok([optionKey \in DOMAIN entries |->
                  IF ~hasKey(overrides, optionKey) THEN entries[optionKey] ELSE effectiveValue(optionKey)])

createHmacFactory(config) ==
  IF ~IsDefined(member(config, "key"))
    THEN TypeError("Cannot read properties of undefined (reading 'type')")
  ELSE IF Get(config["key"]).type # "secret"
    THEN ConfigurationError("HMAC key type requires secret key")
  ELSE IF Get(config["algorithm"]) \in HmacAlgorithm
    THEN Ok(Get(config["key"]).material)
  ELSE ConfigurationError("Unsupported HMAC algorithm")

\* new HmacSignatureKey(id, signatureAlgorithm, hasher, digest, config, opts)
HmacSignatureKey(id, signatureAlgorithm, digest, config, opts) ==
  LET hmac == createHmacFactory(config)
  IN IF ~IsOk(hmac) THEN hmac
     ELSE Ok(Some([id |-> id, signatureAlgorithm |-> signatureAlgorithm, digestAlgorithm |-> digest,
                   algorithm |-> Get(config["algorithm"]), secret |-> hmac.value, options |-> opts]))

createSignatureKey(id, config, options) ==
  IF ~(IsDefined(member(config, "digest")) /\ Get(config["digest"]) \in DigestAlgorithm)
    THEN ConfigurationError("unsupported digest algorithm")
  ELSE IF truthy(member(config, "algorithm"))
    THEN IF Get(config["algorithm"]) \in HmacAlgorithm
           THEN HmacSignatureKey(id, Get(config["signatureAlgorithm"]), Get(config["digest"]), config, options)
           ELSE ConfigurationError("unsupported signing algorithm")
  ELSE IF truthy(member(config, "keyAlgorithm"))
    THEN ConfigurationError("key pair algorithms are not yet supported")
  ELSE ConfigurationError("got unrecognized key configuration object")

\* the part of tryGetKey that follows the awaited lookup
afterLookup(manager, keyId, outcome) ==
  IF outcome.kind = "rejected" THEN outcome.error
  ELSE IF ~IsDefined(outcome.config) THEN Ok(Undefined)
  ELSE
    LET keyConfig == Get(outcome.config)
        options == getKeySigningOptions(manager, keyId, keyConfig)
    IN IF ~IsOk(options) THEN options
       ELSE IF member(keyConfig, "signatureAlgorithm") # Some(HS2019)
         THEN IF member(keyConfig, "signatureAlgorithm") = Some(HMAC_SHA256)
                THEN IF ~truthy(member(keyConfig, "algorithm"))
                       THEN ConfigurationError("cannot use hmac-sha256 with public keys")
                       ELSE createSignatureKey(keyId,
                              spread(keyConfig, [digest |-> Some(SHA256), algorithm |-> Some(HMAC_SHA256)]),
                              options.value)
                ELSE ConfigurationError("unrecognized signature algorithm requested for key")
       ELSE createSignatureKey(keyId, keyConfig, options.value)

tryGetKey(manager, keyId) == afterLookup(manager, keyId, manager.keyLookup[keyId])

\* the part of getKey that follows the awaited tryGetKey
afterTryGetKey(keyId, found) ==
  IF ~IsOk(found) THEN found
  ELSE IF ~IsDefined(found.value) THEN VerificationErrorWith("key not found", keyId)
  ELSE found

getKey(manager, keyId) == afterTryGetKey(keyId, tryGetKey(manager, keyId))

create(config) ==
  IF member(config, "version") # Some(DRAFT_CAVAGE_12)
    THEN ConfigurationError("unsupported signature version")
  ELSE IF truthy(member(config, "keyId"))
    THEN
      LET keyLookup == fixedKeyLookup(Get(config["keyId"]), config)
          baseStrippedConfig == rest(config, {"keyId", "digest"})
      IN IF truthy(member(baseStrippedConfig, "algorithm"))
           THEN Ok(SignatureKeyManager(spread(DEFAULT_OPTS,
                     spread(rest(baseStrippedConfig, {"algorithm", "key"}), [keyLookup |-> Some(keyLookup)]))))
         ELSE IF truthy(member(baseStrippedConfig, "keyAlgorithm"))
           THEN Ok(SignatureKeyManager(spread(DEFAULT_OPTS,
                     spread(rest(baseStrippedConfig, {"keyAlgorithm", "hashAlgorithm", "publicKey", "privateKey"}),
                            [keyLookup |-> Some(keyLookup)]))))
         ELSE ConfigurationError("unrecognized fixed key configuration")
  ELSE IF IsDefined(member(config, "keyLookup"))
    THEN Ok(SignatureKeyManager(spread(DEFAULT_OPTS, config)))
  ELSE ConfigurationError("either a fixed {keyId, key} or a key lookup function must be provided")

\* ---------------------------------------------------------------------
\* The configurations handed to signatures() and the key configurations
\* a lookup function resolves to
\* ---------------------------------------------------------------------

SecretKeyObject == [type |-> "secret", material |-> "k1"]
PublicKeyObject == [type |-> "public", material |-> "p1"]
RSA == <<"r", "s", "a">>
ECDSA == <<"e", "c", "d", "s", "a">>

SecretParts ==
  { [signatureAlgorithm |-> Some(HS2019), digest |-> Some(SHA512), algorithm |-> Some(HMAC_SHA512),
     key |-> Some(SecretKeyObject)],
    [signatureAlgorithm |-> Some(HMAC_SHA256), algorithm |-> Some(HMAC_SHA256), key |-> Some(SecretKeyObject)],
    [signatureAlgorithm |-> Some(HMAC_SHA256), digest |-> Some(SHA512), algorithm |-> Some(HMAC_SHA512),
     key |-> Some(SecretKeyObject)],
    [signatureAlgorithm |-> Some(HMAC_SHA256), algorithm |-> Some(HMAC_SHA256), key |-> Some(PublicKeyObject)],
    [signatureAlgorithm |-> Some(RSA_SHA256), digest |-> Some(SHA256), algorithm |-> Some(HMAC_SHA256),
     key |-> Some(SecretKeyObject)] }

KeyPairParts ==
  { [signatureAlgorithm |-> Some(s), digest |-> Some(SHA256), keyAlgorithm |-> Some(a),
     hashAlgorithm |-> Some(SHA256), publicKey |-> Some(PublicKeyObject)] :
      s \in {HS2019, HMAC_SHA256}, a \in {RSA} }
  \cup
  { [signatureAlgorithm |-> Some(RSA_SHA256), digest |-> Some(SHA256), keyAlgorithm |-> Some(RSA),
     hashAlgorithm |-> Some(SHA256), publicKey |-> Some(PublicKeyObject)],
    [signatureAlgorithm |-> Some(ECDSA_SHA256), digest |-> Some(SHA256), keyAlgorithm |-> Some(ECDSA),
     hashAlgorithm |-> Some(SHA256), publicKey |-> Some(PublicKeyObject)] }

\* neither a secret key nor a key pair
BareParts == { [signatureAlgorithm |-> Some(HS2019), digest |-> Some(SHA256)] }

KeyParts == SecretParts \cup KeyPairParts \cup BareParts

\* signature options as properties of a configuration: none, a value, an
\* explicit undefined
OptionParts ==
  { <<>>,
    [calculateDigest |-> Some(FALSE)],
    [calculateDigest |-> Undefined],
    [requestHeaders |-> Some(<<<<H_x, Both>>>>), responseHeaders |-> Undefined] }

\* the per-key overrides of the KeyConfig type: its options property
OverrideParts == { <<>>, [options |-> Some([calculateDigest |-> Some(FALSE)])] }

KeyConfigs ==
  { spread(k, o) : k \in KeyParts, o \in {<<>>, [calculateDigest |-> Some(FALSE)], [calculateDigest |-> Undefined]} }
  \cup { spread(k, o) : k \in {p \in SecretParts : p["signatureAlgorithm"] = Some(HS2019)}, o \in OverrideParts }

\* lookup functions: what they give for t, while u is unknown to them or
\* makes them fail
LookupFunctions ==
  { [keyId \in KeyIds |-> IF keyId = Id_t THEN Resolved(Some(c)) ELSE IF keyId = Id_u THEN o ELSE Resolved(Undefined)] :
      c \in KeyConfigs, o \in {Resolved(Undefined), Rejected(Error("lookup failed"))} }

Versions == { [version |-> Some(DRAFT_CAVAGE_12)], [version |-> Some("draft-cavage-http-signatures-11")], <<>> }

FixedConfigs ==
  { spread([keyId |-> Some(id)], spread(k, o)) : id \in {Id_t}, k \in KeyParts, o \in OptionParts }
  \cup { spread([keyId |-> Some(Id_empty)], k) : k \in SecretParts }

LookupConfigs == { spread([keyLookup |-> Some(f)], o) : f \in LookupFunctions, o \in OptionParts }

BothConfigs ==
  { spread(c, [keyLookup |-> Some(f)]) :
      c \in { x \in FixedConfigs : x["signatureAlgorithm"] = Some(HS2019) /\ DOMAIN x \cap {"calculateDigest", "requestHeaders"} = {} },
      f \in { g \in LookupFunctions : g[Id_t].config[1]["signatureAlgorithm"] = Some(HMAC_SHA256)
                                       /\ g[Id_u].kind = "resolved"
                                       /\ "calculateDigest" \notin DOMAIN g[Id_t].config[1] } }

NeitherConfigs == OptionParts

HttpSigParams ==
  { spread(v, c) : v \in {[version |-> Some(DRAFT_CAVAGE_12)]},
                   c \in FixedConfigs \cup LookupConfigs \cup BothConfigs \cup NeitherConfigs }
  \cup { spread(v, c) : v \in Versions,
                        c \in { x \in FixedConfigs \cup LookupConfigs \cup BothConfigs \cup NeitherConfigs :
                                  DOMAIN x \cap {"calculateDigest", "requestHeaders"} = {} } }

\* ---------------------------------------------------------------------
\* Specification of the key manager: signatures(config), then calls of
\* tryGetKey and getKey, each run alone.  Here key is the manager (once
\* constructed) and msg the configuration.
\* ---------------------------------------------------------------------

InitManager ==
  /\ key = Undefined
  /\ msg \in HttpSigParams
  /\ op = NoOp
  /\ origin = "none"
  /\ base = Undefined

Signatures ==
  /\ origin = "none"
  /\ op' = Call("signatures", <<>>, create(msg), <<>>)
  /\ key' = IF IsOk(create(msg)) THEN Some(create(msg).value) ELSE Undefined
  /\ origin' = IF IsOk(create(msg)) THEN "created" ELSE "failed"
  /\ UNCHANGED <<msg, base>>

TryGetKey(keyId) ==
  /\ origin = "created"
  /\ op' = Call("tryGetKey", keyId, tryGetKey(Get(key), keyId), <<>>)
  /\ UNCHANGED <<key, msg, origin, base>>

GetKey(keyId) ==
  /\ origin = "created"
  /\ op' = Call("getKey", keyId, getKey(Get(key), keyId), <<>>)
  /\ UNCHANGED <<key, msg, origin, base>>

NextManager ==
  \/ Signatures
  \/ \E keyId \in KeyIds : TryGetKey(keyId)
  \/ \E keyId \in KeyIds : GetKey(keyId)

SpecManager == InitManager /\ [][NextManager]_vars

\* ---------------------------------------------------------------------
\* Properties of the key manager (checked under SpecManager)
\* ---------------------------------------------------------------------

\* the manager was built from a fixed (keyId, keyConfig) alone
FixedMode == origin = "created" /\ truthy(member(msg, "keyId")) /\ ~hasKey(msg, "keyLookup")
LookupMode == origin = "created" /\ ~truthy(member(msg, "keyId"))

\* what the manager's lookup gives for the id of the last call
Looked == Get(key).keyLookup[op.arg]
YieldsAbsent == Looked.kind = "resolved" /\ ~IsDefined(Looked.config)

ReturnsKey(r, keyId) == IsOk(r) /\ IsDefined(r.value) /\ Get(r.value).id = keyId
NotFound(r, keyId) == r.kind = "VerificationError" /\ r.message = "key not found" /\ r.detail = keyId

\* C21 as stated: for a manager built from a fixed (keyId, keyConfig),
\* tryGetKey(id) yields a key with that id when id = keyId and the absent
\* result for every other id; in both construction modes getKey(id)
\* raises VerificationError 'key {id} not found' exactly when the lookup
\* yields absent, and otherwise returns the same key tryGetKey returns.
C21_KeyResolution ==
  /\ (FixedMode /\ op.name = "tryGetKey") =>
       IF op.arg = Get(msg["keyId"]) THEN ReturnsKey(op.result, op.arg) ELSE op.result = Ok(Undefined)
  /\ (origin = "created" /\ op.name = "getKey") =>
       /\ NotFound(op.result, op.arg) <=> YieldsAbsent
       /\ ~YieldsAbsent => (ReturnsKey(op.result, op.arg) /\ op.result = tryGetKey(Get(key), op.arg))

\* C21, amended: with the fixed id, tryGetKey yields a key with that id
\* or raises the ConfigurationError of that key's construction; every
\* other id yields absent.  In both modes getKey raises VerificationError
\* 'key {id} not found' exactly when the lookup yields absent, and
\* otherwise ends as tryGetKey ends: with the same key or the same error.
C21_KeyResolutionOrConfigurationError ==
  /\ (FixedMode /\ op.name = "tryGetKey") =>
       IF op.arg = Get(msg["keyId"])
         THEN ReturnsKey(op.result, op.arg) \/ op.result.kind = "ConfigurationError"
         ELSE op.result = Ok(Undefined)
  /\ (origin = "created" /\ op.name = "getKey") =>
       /\ NotFound(op.result, op.arg) <=> YieldsAbsent
       /\ ~YieldsAbsent => /\ op.result = tryGetKey(Get(key), op.arg)
                           /\ ReturnsKey(op.result, op.arg) \/ ~IsOk(op.result)

\* a fixed manager asked by getKey for another id than its own
C21_Witness ==
  /\ FixedMode
  /\ op.name = "getKey"
  /\ op.arg = Id_u
  /\ Get(msg["keyId"]) = Id_t
  /\ NotFound(op.result, Id_u)

\* a fixed manager returns the key with its id
C21_WitnessKey ==
  /\ FixedMode
  /\ op.name = "tryGetKey"
  /\ ReturnsKey(op.result, Get(msg["keyId"]))

\* a fixed key pair configuration: the manager is built and the lookup
\* of its id raises
C21_WitnessKeyPair ==
  /\ FixedMode
  /\ op.name = "tryGetKey"
  /\ op.arg = Get(msg["keyId"])
  /\ truthy(member(msg, "keyAlgorithm"))
  /\ op.result = ConfigurationError("key pair algorithms are not yet supported")

SignatureOptionNames == {"requestHeaders", "responseHeaders", "calculateDigest"}

KeyReturned == origin = "created" /\ op.name \in {"tryGetKey", "getKey"} /\ IsOk(op.result) /\ IsDefined(op.result.value)
ReturnedKey == Get(op.result.value)
LookedConfig == Get(Looked.config)

\* the manager's base value as the spec has it: the constructor's override
\* or else the default
BaseValue(optionName) == firstDefined(<<member(msg, optionName), DEFAULT_OPTS[optionName]>>)

\* C22 as stated: for every key returned by getKey / tryGetKey and each of
\* requestHeaders, responseHeaders and calculateDigest, the key's resolved
\* value is the first defined of the key configuration's override and the
\* manager's base value (the constructor's override or else the default),
\* and the resolved record holds no undefined option.
C22_OptionMerging ==
  KeyReturned =>
    \A optionName \in SignatureOptionNames :
      /\ IsDefined(ReturnedKey.options[optionName])
      /\ ReturnedKey.options[optionName]
           = firstDefined(<<member(LookedConfig, optionName), BaseValue(optionName)>>)

\* C22, a failing run: the constructor was given calculateDigest:
\* undefined, the lookup's key configuration does not name the option, and
\* the key is returned with the option undefined
C22_UndefinedOptionReturned ==
  /\ KeyReturned
  /\ LookupMode
  /\ hasKey(msg, "calculateDigest")
  /\ ~hasKey(LookedConfig, "calculateDigest")
  /\ ~IsDefined(ReturnedKey.options["calculateDigest"])

\* C22 where the constructor was given no undefined option: the merge is
\* as stated.
C22_OptionMergingOfDefined ==
  (KeyReturned /\ \A optionName \in DOMAIN msg \cap SignatureOptionNames : IsDefined(msg[optionName])) =>
    \A optionName \in SignatureOptionNames :
      /\ IsDefined(ReturnedKey.options[optionName])
      /\ ReturnedKey.options[optionName]
           = firstDefined(<<member(LookedConfig, optionName), BaseValue(optionName)>>)

\* the key configuration's own value wins over the manager's
C22_WitnessOverride ==
  /\ KeyReturned
  /\ LookupMode
  /\ member(LookedConfig, "calculateDigest") = Some(FALSE)
  /\ ~hasKey(msg, "calculateDigest")
  /\ ReturnedKey.options["calculateDigest"] = Some(FALSE)

\* overrides given in the key configuration's options property have no
\* effect
C22_WitnessOptionsPropertyIgnored ==
  /\ KeyReturned
  /\ LookupMode
  /\ hasKey(LookedConfig, "options")
  /\ Get(LookedConfig["options"])["calculateDigest"] = Some(FALSE)
  /\ ReturnedKey.options["calculateDigest"] = Some(TRUE)

\* in fixed mode the undefined option makes the key's construction fail
C22_WitnessUnsetOption ==
  /\ FixedMode
  /\ op.name = "tryGetKey"
  /\ member(msg, "calculateDigest") = Undefined
  /\ hasKey(msg, "calculateDigest")
  /\ op.result = ConfigurationError("key config has unset option")

\* a tryGetKey call whose lookup gave a key configuration
Configured == origin = "created" /\ op.name = "tryGetKey" /\ Looked.kind = "resolved" /\ IsDefined(Looked.config)
Scheme == member(LookedConfig, "signatureAlgorithm")
IsSecretConfig(config) ==
  /\ truthy(member(config, "algorithm"))
  /\ IsDefined(member(config, "key"))
  /\ Get(config["key"]).type = "secret"
IsKeyPairConfig(config) == ~truthy(member(config, "algorithm")) /\ truthy(member(config, "keyAlgorithm"))
NotYetSupported == ConfigurationError("key pair algorithms are not yet supported")

\* C23 as stated: in tryGetKey an hs2019 configuration is used unchanged;
\* an hmac-sha256 one gives a key with digest SHA-256 and MAC hmac-sha256
\* whatever was configured, and a ConfigurationError if it is not a
\* secret-key configuration; rsa-sha256, ecdsa-sha256 and any key pair
\* configuration raise ConfigurationError 'key pair algorithms are not yet
\* supported' and no key is returned.
C23_Coercion ==
  Configured =>
    /\ (Scheme = Some(HS2019) /\ KeyReturned) =>
         /\ ReturnedKey.signatureAlgorithm = HS2019
         /\ Some(ReturnedKey.digestAlgorithm) = member(LookedConfig, "digest")
         /\ Some(ReturnedKey.algorithm) = member(LookedConfig, "algorithm")
    /\ (Scheme = Some(HMAC_SHA256) /\ KeyReturned) =>
         /\ ReturnedKey.signatureAlgorithm = HMAC_SHA256
         /\ ReturnedKey.digestAlgorithm = SHA256
         /\ ReturnedKey.algorithm = HMAC_SHA256
    /\ (Scheme = Some(HMAC_SHA256) /\ ~IsSecretConfig(LookedConfig)) => op.result.kind = "ConfigurationError"
    /\ (Scheme \in {Some(RSA_SHA256), Some(ECDSA_SHA256)} \/ (Scheme = Some(HS2019) /\ IsKeyPairConfig(LookedConfig)))
         => op.result = NotYetSupported

\* C23, a failing run: the scheme is rsa-sha256 or ecdsa-sha256 and the
\* error raised is 'unrecognized signature algorithm requested for key'
C23_UnrecognizedScheme ==
  /\ Configured
  /\ Scheme \in {Some(RSA_SHA256), Some(ECDSA_SHA256)}
  /\ op.result = ConfigurationError("unrecognized signature algorithm requested for key")

\* C23 without the message: the reserved schemes and the key pair
\* configurations end in a ConfigurationError, the rest is as stated.
C23_CoercionKinds ==
  Configured =>
    /\ (Scheme = Some(HS2019) /\ KeyReturned) =>
         /\ ReturnedKey.signatureAlgorithm = HS2019
         /\ Some(ReturnedKey.digestAlgorithm) = member(LookedConfig, "digest")
         /\ Some(ReturnedKey.algorithm) = member(LookedConfig, "algorithm")
    /\ (Scheme = Some(HMAC_SHA256) /\ KeyReturned) =>
         /\ ReturnedKey.signatureAlgorithm = HMAC_SHA256
         /\ ReturnedKey.digestAlgorithm = SHA256
         /\ ReturnedKey.algorithm = HMAC_SHA256
    /\ (Scheme = Some(HMAC_SHA256) /\ ~IsSecretConfig(LookedConfig)) => op.result.kind = "ConfigurationError"
    /\ (Scheme \in {Some(RSA_SHA256), Some(ECDSA_SHA256)} \/ IsKeyPairConfig(LookedConfig))
         => op.result.kind = "ConfigurationError"

\* an hmac-sha256 configuration that names SHA-512 and hmac-sha512 gives a
\* key with SHA-256 and hmac-sha256
C23_WitnessForced ==
  /\ Configured
  /\ KeyReturned
  /\ Scheme = Some(HMAC_SHA256)
  /\ member(LookedConfig, "digest") = Some(SHA512)
  /\ member(LookedConfig, "algorithm") = Some(HMAC_SHA512)
  /\ ReturnedKey.digestAlgorithm = SHA256
  /\ ReturnedKey.algorithm = HMAC_SHA256

\* an hs2019 key pair configuration
C23_WitnessKeyPair ==
  /\ Configured
  /\ Scheme = Some(HS2019)
  /\ IsKeyPairConfig(LookedConfig)
  /\ op.result = NotYetSupported

Supported == member(msg, "version") = Some(DRAFT_CAVAGE_12)
FixedSupplied == truthy(member(msg, "keyId"))
LookupSupplied == IsDefined(member(msg, "keyLookup"))
Constructed == op.name = "signatures"

\* C24 as stated: signatures(config) returns a manager only if the version
\* is 'draft-cavage-http-signatures-12' and exactly one of a fixed (keyId,
\* keyConfig) and a keyLookup is supplied; any other version, supplying
\* neither and supplying both raise a ConfigurationError.
C24_Construction ==
  Constructed =>
    /\ IsOk(op.result) => (Supported /\ (FixedSupplied # LookupSupplied))
    /\ ~Supported => op.result.kind = "ConfigurationError"
    /\ (~FixedSupplied /\ ~LookupSupplied) => op.result.kind = "ConfigurationError"
    /\ (FixedSupplied /\ LookupSupplied) => op.result.kind = "ConfigurationError"

\* C24, a failing run: both are supplied and a manager is returned, which
\* answers from the fixed key and never calls the lookup function
C24_BothAccepted ==
  /\ Constructed
  /\ Supported
  /\ FixedSupplied
  /\ LookupSupplied
  /\ IsOk(op.result)
  /\ op.result.value.keyLookup = fixedKeyLookup(Get(msg["keyId"]), msg)
  /\ op.result.value.keyLookup # Get(msg["keyLookup"])

\* C24 where at most one is supplied: a manager is returned only for the
\* supported version with one of the two, and another version or neither
\* of them raises a ConfigurationError.
C24_ConstructionOfOne ==
  (Constructed /\ ~(FixedSupplied /\ LookupSupplied)) =>
    /\ IsOk(op.result) => (Supported /\ (FixedSupplied # LookupSupplied))
    /\ ~Supported => op.result.kind = "ConfigurationError"
    /\ (~FixedSupplied /\ ~LookupSupplied) => op.result.kind = "ConfigurationError"

C24_WitnessVersion ==
  /\ Constructed
  /\ member(msg, "version") = Some("draft-cavage-http-signatures-11")
  /\ LookupSupplied
  /\ op.result = ConfigurationError("unsupported signature version")

C24_WitnessNeither ==
  /\ Constructed
  /\ Supported
  /\ ~hasKey(msg, "keyId")
  /\ ~LookupSupplied
  /\ op.result = ConfigurationError("either a fixed {keyId, key} or a key lookup function must be provided")

\* a getKey or tryGetKey call whose awaited lookup was rejected
LookupRejected == origin = "created" /\ op.name \in {"tryGetKey", "getKey"} /\ Looked.kind = "rejected"

\* C25 as stated: when the key lookup rejects while getKey / tryGetKey
\* awaits it, the call fails with a ConfigurationError and no key handle is
\* returned.
C25_RejectionIsConfigurationError ==
  LookupRejected => op.result.kind = "ConfigurationError"

\* C25, a failing run: the call fails with the lookup's own error
C25_RejectionPassedOn ==
  /\ LookupRejected
  /\ op.name = "getKey"
  /\ Looked.error = Error("lookup failed")
  /\ op.result = Error("lookup failed")

\* C25 without the kind of the error: the call fails and returns no key.
C25_RejectionFails ==
  LookupRejected => (~IsOk(op.result) /\ op.result = Looked.error)

\* ---------------------------------------------------------------------
\* The order of the checks of #verifyMessage (checked under SpecTime)
\* ---------------------------------------------------------------------

CheckOrder == <<"getSignature", "algorithm", "canonicalString", "verify", "requiredHeaders", "validCreation", "validExpires">>

\* the checks as properties of the message and the key, each on its own
SchemeAgrees == ~(IsDefined(ParsedOf(msg).signatureAlgorithm)
                  /\ Get(ParsedOf(msg).signatureAlgorithm) # key.signatureAlgorithm)
Rebuilt == canonicalString(msg, ParsedOf(msg).headers)
MacVerifies == IsOk(Rebuilt) /\ GivenMac = KeyMac
RequiredDeclared ==
  \A i \in 1..Len(LocalSpec) :
    LocalSpec[i][2] \in {"verify", Both} => includes(ParsedOf(msg).headers, LocalSpec[i][1])
CreationValid == validCreation(ParsedOf(msg))
ExpiresValid == validExpires(ParsedOf(msg))

AfterMac == {"signature missing required headers", "signature creation in future", "signature has expired"}
AtMac == {"signature length mismatch", "signature verification failure"}

\* C26: the checks run in the fixed order signature present, algorithm
\* agreement, canonical string over the signature's declared list, MAC,
\* required headers, validCreation, validExpires, and the error raised is
\* that of the first check that fails; no required-header, created or
\* expires error is reported for a message whose MAC does not verify.
C26_CheckOrder ==
  /\ (IsVerify /\ H_signature \notin DOMAIN msg.message.headers) =>
       (op.steps = <<"getSignature">> /\ op.result = VerificationError("signature not present on message"))
  /\ (IsVerify /\ CarriesParsed(msg)) =>
    /\ op.steps = SubSeq(CheckOrder, 1, Len(op.steps))
    /\ ~SchemeAgrees => op.result = VerificationError("incorrect signature scheme used for key")
    /\ (SchemeAgrees /\ ~IsOk(Rebuilt)) => op.result = Rebuilt
    /\ (SchemeAgrees /\ IsOk(Rebuilt) /\ ~MacVerifies) => op.result.message \in AtMac
    /\ ~MacVerifies => op.result.message \notin AfterMac
    /\ (SchemeAgrees /\ MacVerifies /\ ~RequiredDeclared)
         => op.result.message = "signature missing required headers"
    /\ (SchemeAgrees /\ MacVerifies /\ RequiredDeclared /\ ~CreationValid)
         => op.result = VerificationError("signature creation in future")
    /\ (SchemeAgrees /\ MacVerifies /\ RequiredDeclared /\ CreationValid /\ ~ExpiresValid)
         => op.result = VerificationError("signature has expired")
    /\ (SchemeAgrees /\ MacVerifies /\ RequiredDeclared /\ CreationValid /\ ExpiresValid)
         => op.result = Ok(TRUE)

\* a forged signature that also lacks a required header and states a
\* creation time beyond the window: the error is the MAC's
C26_Witness ==
  /\ IsVerify
  /\ CarriesParsed(msg)
  /\ origin = "forged"
  /\ SchemeAgrees
  /\ IsOk(Rebuilt)
  /\ ~MacVerifies
  /\ ~RequiredDeclared
  /\ ~CreationValid
  /\ op.result = VerificationError("signature verification failure")

\* another scheme than the key's, and a MAC that would not verify either
C26_WitnessScheme ==
  /\ IsVerify
  /\ CarriesParsed(msg)
  /\ ~SchemeAgrees
  /\ ~CreationValid
  /\ ~ExpiresValid
  /\ op.result = VerificationError("incorrect signature scheme used for key")

\* the peer's MAC verifies, a required header is not declared and both
\* times are outside their windows: the error is the required headers'
C26_WitnessRequired ==
  /\ IsVerify
  /\ CarriesParsed(msg)
  /\ MacVerifies
  /\ ~RequiredDeclared
  /\ ~CreationValid
  /\ ~ExpiresValid
  /\ op.result.message = "signature missing required headers"

\* both times are outside their windows: the error is the creation's
C26_WitnessCreation ==
  /\ IsVerify
  /\ CarriesParsed(msg)
  /\ MacVerifies
  /\ RequiredDeclared
  /\ ~CreationValid
  /\ ~ExpiresValid
  /\ op.result = VerificationError("signature creation in future")

\* ---------------------------------------------------------------------
\* The created and expires parameters and the MAC (checked under SpecTime)
\* ---------------------------------------------------------------------

\* C30 as stated: whenever verifyRequest / verifyResponse returns true for
\* a signature that carries a created (an expires) parameter, (created)
\* ((expires)) is in the signature's header list, so that the parameter is
\* covered by the MAC and adding, removing or changing it makes the
\* verification fail.
C30_TimestampsCovered ==
  (Accepted /\ CarriesParsed(msg)) =>
    /\ IsDefined(ParsedOf(msg).created) => includes(ParsedOf(msg).headers, H_created)
    /\ IsDefined(ParsedOf(msg).expires) => includes(ParsedOf(msg).headers, H_expires)

\* C30, a failing run: the peer signed the header x alone, created and
\* expires parameters were added to its signature string afterwards, and
\* the verification returns true
C30_AddedTimestampsAccepted ==
  /\ Accepted
  /\ origin = "peer"
  /\ CarriesParsed(msg)
  /\ ParsedOf(msg).headers = <<H_x>>
  /\ IsDefined(ParsedOf(msg).created)
  /\ IsDefined(ParsedOf(msg).expires)
  /\ GivenMac = hmacSign(key, canonicalString(msg, <<H_x>>).value)

\* the same signature with another created value is accepted as well
C30_ChangedCreatedAccepted ==
  /\ Accepted
  /\ origin = "peer"
  /\ CarriesParsed(msg)
  /\ ParsedOf(msg).headers = <<H_x>>
  /\ ParsedOf(msg).created = Some(0)
  /\ ~IsDefined(ParsedOf(msg).expires)

\* ---------------------------------------------------------------------
\* Concurrent use of one manager (specification SpecConcurrent).  Callers
\* run getKey and then sign or verify with the key they got.  A call
\* suspends at the two awaits of getKey (the lookup's promise in tryGetKey,
\* tryGetKey's promise in getKey); between them every step runs to its end,
\* and the steps of the callers interleave freely.  Here key is the
\* manager, base the manager as constructed, and msg the callers.
\* ---------------------------------------------------------------------

Callers == 1..3

ConcurrentParams ==
  { [version |-> Some(DRAFT_CAVAGE_12), keyId |-> Some(Id_t), signatureAlgorithm |-> Some(HS2019),
     digest |-> Some(SHA256), algorithm |-> Some(HMAC_SHA256), key |-> Some(SecretKeyObject)],
    [version |-> Some(DRAFT_CAVAGE_12),
     keyLookup |-> Some([keyId \in KeyIds |->
        IF keyId = Id_t
          THEN Resolved(Some([signatureAlgorithm |-> Some(HMAC_SHA256), algorithm |-> Some(HMAC_SHA512),
                              key |-> Some(SecretKeyObject), calculateDigest |-> Some(FALSE)]))
        ELSE IF keyId = Id_u THEN Rejected(Error("lookup failed"))
        ELSE Resolved(Undefined)])],
    [version |-> Some(DRAFT_CAVAGE_12), calculateDigest |-> Some(FALSE),
     requestHeaders |-> Some(<<<<H_x, Both>>>>),
     keyLookup |-> Some([keyId \in KeyIds |->
        IF keyId = Id_t
          THEN Resolved(Some([signatureAlgorithm |-> Some(HS2019), digest |-> Some(SHA256),
                              algorithm |-> Some(HMAC_SHA256), key |-> Some(SecretKeyObject)]))
        ELSE IF keyId = Id_u
          THEN Resolved(Some([signatureAlgorithm |-> Some(HS2019), digest |-> Some(SHA256),
                              algorithm |-> Some(HMAC_SHA256), key |-> Some([type |-> "secret", material |-> "k2"])]))
        ELSE Resolved(Undefined)])] }

\* the key handle as the signing and verifying methods read it
handleOf(found) ==
  [id |-> found.id, signatureAlgorithm |-> found.signatureAlgorithm, algorithm |-> found.algorithm,
   secret |-> found.secret,
   options |-> [requestHeaders |-> Get(found.options["requestHeaders"]),
                responseHeaders |-> Get(found.options["responseHeaders"]),
                calculateDigest |-> Get(found.options["calculateDigest"])]]

\* the request the callers sign, and the one they verify: the same with
\* the signature of the key t / k1 under the default options
OutboundRequest ==
  [message |-> [headers |-> headersOf(TRUE, TRUE, Some(<<V_a>>)),
                requestTarget |-> Some([method |-> Method_GET, path |-> Path_root])],
   options |-> NoOptions]

InboundRequest ==
  setHeader(OutboundRequest, H_signature,
            <<signMessage([KeyA EXCEPT !.algorithm = HMAC_SHA256], OutboundRequest, DefaultRequestHeaders).value>>)

Idle == [pc |-> "idle", keyId |-> Id_empty, pending |-> Undefined, found |-> Ok(Undefined), result |-> Ok(Undefined)]

InitConcurrent ==
  /\ key \in { Some(create(config).value) : config \in ConcurrentParams }
  /\ base = key
  /\ msg = [p \in Callers |-> Idle]
  /\ op = NoOp
  /\ origin = "created"

\* variant: the continuation reads the id of the latest call in flight
awaitedKeyIdShared(calls, p) ==
  LET inFlight == { q \in Callers : calls[q].pc \in {"lookup", "tryGetKey"} }
  IN calls[CHOOSE q \in inFlight : \A r \in inFlight : r <= q].keyId

\* the keyId the continuation of caller p's tryGetKey reads: the
\* parameter of its own call
awaitedKeyId(calls, p) == calls[p].keyId

\* getKey(keyId) up to the first await: tryGetKey has called the lookup
CallGetKey(p, keyId) ==
  /\ msg[p].pc = "idle"
  /\ msg' = [msg EXCEPT ![p] = [@ EXCEPT !.pc = "lookup", !.keyId = keyId,
                                         !.pending = Some(Get(key).keyLookup[keyId])]]
  /\ op' = Call("getKey", keyId, Ok(Undefined), <<"called">>)
  /\ UNCHANGED <<key, origin, base>>

\* the lookup's promise settles and tryGetKey runs to its end
LookupSettles(p) ==
  /\ msg[p].pc = "lookup"
  /\ LET found == afterLookup(Get(key), awaitedKeyId(msg, p), Get(msg[p].pending))
     IN /\ msg' = [msg EXCEPT ![p] = [@ EXCEPT !.pc = "tryGetKey", !.found = found]]
        /\ op' = Call("tryGetKey", msg[p].keyId, found, <<"settled">>)
  /\ UNCHANGED <<key, origin, base>>

\* tryGetKey's promise settles and getKey runs to its end
TryGetKeySettles(p) ==
  /\ msg[p].pc = "tryGetKey"
  /\ LET got == afterTryGetKey(msg[p].keyId, msg[p].found)
     IN /\ msg' = [msg EXCEPT ![p] = [@ EXCEPT !.pc = IF IsOk(got) THEN "key" ELSE "failed", !.result = got]]
        /\ op' = Call("getKey", msg[p].keyId, got, <<"settled">>)
  /\ UNCHANGED <<key, origin, base>>

SignWithKey(p) ==
  /\ msg[p].pc = "key"
  /\ LET mine == handleOf(Get(msg[p].found.value))
         signed == signMessage(mine, OutboundRequest, mine.options.requestHeaders)
     IN /\ msg' = [msg EXCEPT ![p] = [@ EXCEPT !.pc = "signed", !.result = signed]]
        /\ op' = Call("signRequest", msg[p].keyId, signed, <<>>)
  /\ UNCHANGED <<key, origin, base>>

VerifyWithKey(p) ==
  /\ msg[p].pc = "key"
  /\ LET mine == handleOf(Get(msg[p].found.value))
         verified == verifyMessage(mine, InboundRequest, mine.options.requestHeaders, Now)
     IN /\ msg' = [msg EXCEPT ![p] = [@ EXCEPT !.pc = "verified", !.result = verified.result]]
        /\ op' = Call("verifyRequest", msg[p].keyId, verified.result, verified.steps)
  /\ UNCHANGED <<key, origin, base>>

NextConcurrent ==
  \E p \in Callers :
    \/ \E keyId \in {Id_t, Id_u} : CallGetKey(p, keyId)
    \/ LookupSettles(p)
    \/ TryGetKeySettles(p)
    \/ SignWithKey(p)
    \/ VerifyWithKey(p)

SpecConcurrent == InitConcurrent /\ [][NextConcurrent]_vars

\* what caller p's operations return when they run alone against the
\* manager as constructed
AloneKey(p) == getKey(Get(base), msg[p].keyId)
AloneSigned(p) ==
  With(handleOf(Get(AloneKey(p).value)), LAMBDA mine :
    signMessage(mine, OutboundRequest, mine.options.requestHeaders))
AloneVerified(p) ==
  With(handleOf(Get(AloneKey(p).value)), LAMBDA mine :
    verifyMessage(mine, InboundRequest, mine.options.requestHeaders, Now).result)

C27_WitnessFailed ==
  /\ msg[1].pc = "failed"
  /\ msg[1].result = Error("lookup failed")
  /\ msg[2].pc = "verified"
  /\ msg[3].pc = "lookup"

\* ---------------------------------------------------------------------
\* The adapters (specification SpecAdapters): the express adapter
\* (express-http-sig/src/index.ts) on the routes of its test server, and
\* further down the guard of the nest adapter.  One request runs through
\* the middleware chain of its route; the continuations of the getKey
\* promises run at any point between the steps of the chain.  Here key is
\* the manager httpSignatures built, and msg the request, res.locals, the
\* promises in flight, the position in the chain and the response.
\* ---------------------------------------------------------------------

ExpressParams ==
  { spread([version |-> Some(DRAFT_CAVAGE_12), keyId |-> Some(id), signatureAlgorithm |-> Some(HS2019),
            digest |-> Some(SHA256), algorithm |-> Some(HMAC_SHA256), key |-> Some(SecretKeyObject)], o) :
      id \in {AdapterKeyId, Id_t},
      o \in { <<>>, [calculateDigest |-> Some(FALSE)], [responseHeaders |-> Some(<<<<H_host, "sign">>>>)] } }
  \cup
  { [version |-> Some(DRAFT_CAVAGE_12),
     keyLookup |-> Some([keyId \in KeyIds |-> Rejected(Error("lookup failed"))])] }

\* goodRoutes and badRoutes of the test server
Chain(route) ==
  IF route = "good" THEN <<"json", "requestSigEnforcer", "responseSigner", "handler">>
  ELSE <<"responseSigner", "json", "requestSigEnforcer", "handler">>
VerifyHook(route) == route = "good"

RequestBody == <<1>>
ResponseBody == <<2>>

ExpressRequests ==
  { [route |-> r, signature |-> s, body |-> b, digest |-> d, parsed |-> FALSE, locals |-> Undefined,
     pending |-> {}, at |-> 1, status |-> 0, lost |-> {}, raised |-> {}] :
      r \in {"good", "bad"}, s \in BOOLEAN, b \in {Undefined, Some(RequestBody)},
      d \in { Undefined,
              Some(createDigestHeader([digestAlgorithm |-> SHA256], RequestBody)),
              Some(createDigestHeader([digestAlgorithm |-> SHA256], ResponseBody)),
              Some(SHA256) } }

InitAdapters ==
  /\ key \in { Some(create(config).value) : config \in ExpressParams }
  /\ msg \in ExpressRequests
  /\ op = NoOp
  /\ origin = "express"
  /\ base = Undefined

errorHandler(err) == IF err.kind = "VerificationError" THEN 403 ELSE 500

\* a middleware or handler threw: express hands the error to errorHandler
Thrown(name, err) ==
  /\ msg' = [msg EXCEPT !.at = 0, !.status = errorHandler(err), !.raised = @ \cup {err}]
  /\ op' = Call(name, <<>>, err, <<>>)

\* express.json: a request with a body is read and flagged as parsed; the
\* verify hook, where installed, runs digestRequestBody, which calls getKey
\* and returns
JsonParser ==
  /\ msg.at > 0
  /\ Chain(msg.route)[msg.at] = "json"
  /\ msg' = [msg EXCEPT !.at = @ + 1,
                        !.parsed = IsDefined(msg.body),
                        !.pending = IF IsDefined(msg.body) /\ VerifyHook(msg.route)
                                      THEN @ \cup {"digestRequestBody"} ELSE @]
  /\ op' = Call("json", <<>>, Ok(Undefined), <<>>)
  /\ UNCHANGED <<key, origin, base>>

\* what the continuation of digestRequestBody comes to with the key
digestContext(found, body, digestHeader) ==
  IF Get(found.options["calculateDigest"])
    THEN IF ~IsDefined(digestHeader) THEN VerificationError("request digest not set")
         ELSE With(verifyDigestHeader(found, body, Get(digestHeader)), LAMBDA digestMatch :
                IF ~IsOk(digestMatch) THEN digestMatch
                ELSE Ok(Some([digestMatch |-> Some(digestMatch.value), key |-> found])))
    ELSE Ok(Some([digestMatch |-> Undefined, key |-> found]))

\* the continuation of digestRequestBody's getKey: an error in it rejects a
\* promise nobody holds
DigestRequestBodyThen ==
  /\ "digestRequestBody" \in msg.pending
  /\ LET got == getKey(Get(key), AdapterKeyId)
         context == IF IsOk(got) THEN digestContext(Get(got.value), Get(msg.body), msg.digest) ELSE got
     IN /\ msg' = [msg EXCEPT !.pending = @ \ {"digestRequestBody"},
                              !.locals = IF IsOk(context) THEN context.value ELSE @,
                              !.lost = IF IsOk(context) THEN @ ELSE @ \cup {context},
                              !.raised = IF IsOk(context) THEN @ ELSE @ \cup {context}]
        /\ op' = Call("digestRequestBody", <<>>, context, <<>>)
  /\ UNCHANGED <<key, origin, base>>

RequestSigEnforcer ==
  /\ msg.at > 0
  /\ Chain(msg.route)[msg.at] = "requestSigEnforcer"
  /\ IF ~msg.signature
       THEN Thrown("requestSigEnforcer", VerificationError("request was not signed"))
     ELSE IF ~IsDefined(msg.locals) /\ msg.parsed
       THEN Thrown("requestSigEnforcer",
                   ConfigurationError("bodyParser was used without the digestRequestBody helper"))
     ELSE /\ msg' = [msg EXCEPT !.at = @ + 1,
                                !.pending = IF IsDefined(msg.locals) THEN @ ELSE @ \cup {"requestSigEnforcer"}]
          /\ op' = Call("requestSigEnforcer", <<>>, Ok(msg.locals), <<>>)
  /\ UNCHANGED <<key, origin, base>>

\* the promise of the getKey call the enforcer makes and drops
EnforcerGetKeySettles ==
  /\ "requestSigEnforcer" \in msg.pending
  /\ LET got == getKey(Get(key), AdapterKeyId)
     IN /\ msg' = [msg EXCEPT !.pending = @ \ {"requestSigEnforcer"},
                              !.lost = IF IsOk(got) THEN @ ELSE @ \cup {got},
                              !.raised = IF IsOk(got) THEN @ ELSE @ \cup {got}]
        /\ op' = Call("getKey", AdapterKeyId, got, <<>>)
  /\ UNCHANGED <<key, origin, base>>

\* responseSigner calls getKey and returns; the chain goes on in the
\* continuation
ResponseSigner ==
  /\ msg.at > 0
  /\ Chain(msg.route)[msg.at] = "responseSigner"
  /\ msg' = [msg EXCEPT !.at = 0, !.pending = @ \cup {"responseSigner"}]
  /\ op' = Call("responseSigner", <<>>, Ok(Undefined), <<>>)
  /\ UNCHANGED <<key, origin, base>>

ResponseSignerThen ==
  /\ "responseSigner" \in msg.pending
  /\ LET got == getKey(Get(key), AdapterKeyId)
         resume == CHOOSE i \in 1..Len(Chain(msg.route)) : Chain(msg.route)[i] = "responseSigner"
     IN /\ msg' = [msg EXCEPT !.pending = @ \ {"responseSigner"},
                              !.at = IF IsOk(got) THEN resume + 1 ELSE 0,
                              !.lost = IF IsOk(got) THEN @ ELSE @ \cup {got},
                              !.raised = IF IsOk(got) THEN @ ELSE @ \cup {got}]
        /\ op' = Call("responseSigner.then", <<>>, got, <<>>)
  /\ UNCHANGED <<key, origin, base>>

\* the route's handler sends its answer through the interceptor that
\* responseSigner installed: Digest is set and the response signed
sendInterceptor(found, body) ==
  LET ctx == [message |-> [headers |-> [n \in {H_digest} |-> <<createDigestHeader(found, body)>>],
                           requestTarget |-> Undefined],
              options |-> NoOptions]
  IN signMessage(handleOf(found), ctx, handleOf(found).options.responseHeaders)

RouteHandler ==
  /\ msg.at > 0
  /\ Chain(msg.route)[msg.at] = "handler"
  /\ LET sig == sendInterceptor(Get(getKey(Get(key), AdapterKeyId).value), ResponseBody)
     IN IF ~IsOk(sig) THEN Thrown("handler", sig)
        ELSE /\ msg' = [msg EXCEPT !.at = 0, !.status = 202]
             /\ op' = Call("handler", <<>>, sig, <<>>)
  /\ UNCHANGED <<key, origin, base>>

\* ---------------------------------------------------------------------
\* The nest adapter's guard (verify-signature.guard.ts): canActivate turns
\* a VerificationError of the inner check into a ForbiddenException, which
\* nest answers with 403, and rethrows every other error, which nest
\* answers with 500.
\* ---------------------------------------------------------------------

ForbiddenException(cause) ==
  [kind |-> "ForbiddenException", value |-> <<>>, message |-> "signature verification failed", detail |-> <<>>]

canActivate(inner) ==
  IF IsOk(inner) THEN inner
  ELSE IF inner.kind = "VerificationError" THEN ForbiddenException(inner)
  ELSE inner

\* the answer of nest's exception layer to what a guard threw
nestStatus(thrown) == IF thrown.kind = "ForbiddenException" THEN 403 ELSE 500

\* what canActivateInner comes to
InnerOutcomes ==
  { Ok(TRUE),
    ConfigurationError("rawBody missing from request (set rawBody: true in NestFactory.create)"),
    VerificationError("signature not present on request"),
    VerificationError("malformed signature string"),
    VerificationErrorWith("key not found", Id_t),
    VerificationError("signature verification failure"),
    VerificationError("body digest verification failed"),
    VerificationError("digest provided for request with no body"),
    TypeError("The first argument must be of type string"),
    Error("lookup failed") }

CanActivate(inner) ==
  /\ origin = "express"
  /\ op.name = "none"
  /\ LET activated == canActivate(inner)
     IN /\ msg' = [msg EXCEPT !.route = "nest", !.at = 0,
                              !.status = IF IsOk(activated) THEN 200 ELSE nestStatus(activated),
                              !.raised = IF IsOk(inner) THEN @ ELSE @ \cup {inner}]
        /\ op' = Call("canActivate", <<>>, activated, <<>>)
  /\ origin' = "nest"
  /\ UNCHANGED <<key, base>>

NextAdapters ==
  \/ JsonParser
  \/ DigestRequestBodyThen
  \/ RequestSigEnforcer
  \/ EnforcerGetKeySettles
  \/ ResponseSigner
  \/ ResponseSignerThen
  \/ RouteHandler
  \/ \E inner \in InnerOutcomes : CanActivate(inner)

SpecAdapters == InitAdapters /\ [][NextAdapters]_vars

\* ---------------------------------------------------------------------
\* Properties of the adapters (checked under SpecAdapters)
\* ---------------------------------------------------------------------

Enforced == op.name = "requestSigEnforcer"
HelperMissing == ConfigurationError("bodyParser was used without the digestRequestBody helper")
ParsedWithoutHook == msg.parsed /\ ~VerifyHook(msg.route)
ParsedWithHook == msg.parsed /\ VerifyHook(msg.route)

\* C28 as stated: requestSigEnforcer raises the ConfigurationError
\* 'bodyParser was used without the digestRequestBody helper' exactly when
\* the body was parsed by a parser without the digestRequestBody hook, and
\* on a route that installs the hook ahead of the enforcer the enforcer
\* observes the stored verification context under every interleaving of
\* the hook's key lookup with the middleware chain.
C28_Enforcer ==
  Enforced =>
    /\ (op.result = HelperMissing) <=> ParsedWithoutHook
    /\ (ParsedWithHook /\ msg.signature) => (IsOk(op.result) /\ IsDefined(op.result.value))

\* C28, a failing run: the hook is installed, the request is signed and
\* carries the digest of its body, and the enforcer runs while the hook's
\* getKey is still in flight: it finds no context and raises the error
C28_RaisedWithHook ==
  /\ Enforced
  /\ msg.route = "good"
  /\ msg.signature
  /\ msg.parsed
  /\ msg.digest = Some(createDigestHeader([digestAlgorithm |-> SHA256], RequestBody))
  /\ "digestRequestBody" \in msg.pending
  /\ ~IsDefined(msg.locals)
  /\ op.result = HelperMissing
  /\ msg.status = 500

\* C28 on the route without the hook, for signed requests: the error is
\* raised exactly when the body was parsed.
C28_WithoutHook ==
  (Enforced /\ ~VerifyHook(msg.route) /\ msg.signature) => ((op.result = HelperMissing) <=> msg.parsed)

\* the route without the hook: the error is raised
C28_WitnessWithoutHook ==
  /\ Enforced
  /\ msg.route = "bad"
  /\ msg.signature
  /\ msg.parsed
  /\ op.result = HelperMissing

\* the hook's continuation came first and stored the context: the
\* enforcer goes on
C28_WitnessContext ==
  /\ Enforced
  /\ msg.route = "good"
  /\ msg.parsed
  /\ IsOk(op.result)
  /\ IsDefined(op.result.value)
  /\ Get(op.result.value).digestMatch = Some(TRUE)

\* an unsigned request on the route without the hook: the error is the
\* VerificationError
C28_WitnessUnsigned ==
  /\ Enforced
  /\ ParsedWithoutHook
  /\ op.result = VerificationError("request was not signed")

StatusOf(err) == IF err.kind = "VerificationError" THEN 403 ELSE 500
Answered == msg.status # 0
HandlerReached == msg.status \in {200, 202}

\* C29 as stated: every VerificationError raised while a request is
\* handled results in 403 for that request and every other error in 500;
\* no such error is lost, and a request whose check raised never reaches
\* the next handler.
C29_ErrorStatuses ==
  /\ msg.lost = {}
  /\ Answered => \A err \in msg.raised : msg.status = StatusOf(err)
  /\ msg.raised # {} => ~HandlerReached

\* C29, a failing run: the Digest header does not match the body; the
\* VerificationError is raised in the continuation of digestRequestBody,
\* where nothing catches it, and the request is answered with the 500 of
\* the enforcer's ConfigurationError
C29_VerificationErrorLost ==
  /\ msg.route = "good"
  /\ VerificationError("body digest verification failed") \in msg.lost
  /\ msg.status = 500
  /\ msg.pending = {}

\* C29, a failing run: getKey fails in responseSigner; the chain is never
\* resumed and the request gets no answer
C29_WitnessUnanswered ==
  /\ op.name = "responseSigner.then"
  /\ op.result.kind = "VerificationError"
  /\ op.result \in msg.lost
  /\ msg.at = 0
  /\ msg.pending = {}
  /\ ~Answered

\* C29 for the errors thrown in the chain itself and in the guard: the
\* answer is 403 for a VerificationError and 500 for every other error,
\* and the handler is not reached.
C29_ThrownStatuses ==
  /\ (op.name \in {"requestSigEnforcer", "handler"} /\ ~IsOk(op.result)) => msg.status = StatusOf(op.result)
  /\ (op.name = "canActivate" /\ msg.raised # {}) => \A err \in msg.raised : msg.status = StatusOf(err)
  /\ (op.name = "canActivate" /\ msg.raised = {}) => HandlerReached

\* the enforcer's VerificationError is answered with 403
C29_WitnessUnsigned ==
  /\ op.name = "requestSigEnforcer"
  /\ op.result = VerificationError("request was not signed")
  /\ msg.status = 403

\* the guard turns a VerificationError into a ForbiddenException
C29_WitnessGuard ==
  /\ op.name = "canActivate"
  /\ VerificationError("signature verification failure") \in msg.raised
  /\ op.result.kind = "ForbiddenException"
  /\ msg.status = 403

\* signResponse raises in the handler for a header the response lacks
C29_WitnessHandler ==
  /\ op.name = "handler"
  /\ op.result.kind = "VerificationError"
  /\ msg.status = 403

====
